---------------------------- MODULE Spec2Model ----------------------------
(***************************************************************************)
(* Model of onlyati/datastore-rs: the hierarchical key-value tree          *)
(* (Database), the datastore worker that serves it behind a channel, the   *)
(* hook manager with its registry, and the logger.                         *)
(*                                                                         *)
(* A string is a sequence of one-character strings, so that parsing a key  *)
(* (split on '/') and formatting a listed key (prefix + "/" + name) are    *)
(* computed as the code computes them.                                     *)
(***************************************************************************)
EXTENDS Integers, Sequences, FiniteSets, TLC

VARIABLES
    root,           \* Database.root: the table the tree hangs from
    last,           \* the last call made on the Database and what it returned
    ncalls,         \* number of calls made so far
    chan,           \* the datastore worker's request channel (mpsc queue)
    thread,         \* the datastore worker thread: "running", "exited" or "panicked"
    wpc,            \* where the datastore worker is in its loop
    cur,            \* the request the datastore worker is serving
    replies,        \* per request: what arrived on its private reply channel
    received,       \* the requests in the order the worker took them
    nsent,          \* number of requests the callers have sent
    emitted,        \* the sends the datastore worker made, in the order it made
                    \* them: replies to callers and log items
    hook_sender,    \* Database.hook_sender is Some
    logger_sender,  \* Database.logger_sender is Some
    hookChan,       \* the hook manager's request channel
    hookResp,       \* the private reply channel of the hook round trip
    hooks,          \* HookManager.hooks: prefix -> links
    hookLast,       \* the last call made on the HookManager and its result
    posts,          \* the POST requests the hook manager has issued, in order
    logChan,        \* the logger's request channel
    logResp,        \* the private reply channel of the logger round trip
    logState,       \* LoggerManager.state
    logHandle,      \* LoggerManager.file is Some
    logBuffer,      \* LoggerManager.buffer: (now, item) pairs
    logFile,        \* the lines of the log file
    logClock,       \* the clock Utc::now() reads
    logLast,        \* the last call made on the LoggerManager and its result
    suspendedWrites, \* the items written while Suspended and not yet resumed
    senders,        \* the callers still hold a Sender of the datastore's channel
    hookSenders,    \* a caller holds a clone of the hook manager's Sender
    hookThread,     \* the hook manager thread: "none" (not started), "running",
                    \* "exited" or "panicked"; "gone" for a thread that is no
                    \* more and has dropped the Receiver of its channel
    logThread,      \* the logger thread: "none", "running", "exited" or "gone"
    deaf,           \* the requests whose reply Receiver the caller has dropped
    logSent         \* the messages put on the logger's channel by a caller that
                    \* holds its Sender, in the order of the sends

dbVars == <<root, last, ncalls>>
workerVars ==
    <<chan, thread, wpc, cur, replies, received, nsent, emitted, hook_sender, logger_sender>>
hookVars == <<hookChan, hookResp, hooks, hookLast, posts>>
logVars ==
    <<logChan, logResp, logState, logHandle, logBuffer, logFile, logClock, logLast,
      suspendedWrites>>
lifeVars == <<senders, hookSenders, hookThread, logThread, deaf, logSent>>
vars == <<dbVars, workerVars, hookVars, logVars, lifeVars>>

---------------------------------------------------------------------------
(* Bounds of the model *)

\* Longest route (number of segments, the root included) of a drawn key.
MaxSegs == 3
\* Number of calls made on the Database in one run.
MaxCalls == 3
\* Number of requests the callers send to the worker in one run.
MaxReq == 3
\* Number of calls made on the HookManager in one run.
MaxHookCalls == 4
\* Number of Send actions a caller puts on the hook manager's channel itself.
MaxTriggers == 1
\* Number of calls made on the LoggerManager in one run.
MaxLogCalls == 7
\* Number of messages a caller puts on the logger's channel itself.
MaxLogSends == 4

---------------------------------------------------------------------------
(* Strings *)

Slash == "/"

\* The byte value of the characters the model uses (String's Ord is bytewise).
CharCode ==
    [c \in {"/", "1", "2", "_", "a", "b", "d", "e", "m", "n", "o", "r", "s", "t", "u"} |->
        CASE c = "/" -> 47 [] c = "1" -> 49 [] c = "2" -> 50 [] c = "_" -> 95
          [] c = "a" -> 97 [] c = "b" -> 98 [] c = "d" -> 100 [] c = "e" -> 101
          [] c = "m" -> 109 [] c = "n" -> 110 [] c = "o" -> 111 [] c = "r" -> 114
          [] c = "s" -> 115 [] c = "t" -> 116 [] c = "u" -> 117]

\* str::cmp: lexicographic on bytes; -1, 0 or 1.
RECURSIVE StrCmp(_, _)
StrCmp(a, b) ==
    IF a = <<>> /\ b = <<>> THEN 0
    ELSE IF a = <<>> THEN -1
    ELSE IF b = <<>> THEN 1
    ELSE IF CharCode[Head(a)] < CharCode[Head(b)] THEN -1
    ELSE IF CharCode[Head(a)] > CharCode[Head(b)] THEN 1
    ELSE StrCmp(Tail(a), Tail(b))

\* str::starts_with
StartsWith(s, p) ==
    /\ Len(p) <= Len(s)
    /\ SubSeq(s, 1, Len(p)) = p

\* format!("{}{}", a, b): the two pieces with no '/' between them.
FormatPath_glued(a, b) == a \o b

\* format!("{}/{}", a, b)
FormatPath(a, b) == a \o <<Slash>> \o b

\* key_string.split("/").filter(|x| !x.is_empty()), from character i on, cur
\* being the piece read so far.
RECURSIVE SplitFrom(_, _, _)
SplitFrom(s, i, piece) ==
    LET done == IF piece = <<>> THEN <<>> ELSE <<piece>> IN
    IF i > Len(s) THEN done
    ELSE IF s[i] = Slash THEN done \o SplitFrom(s, i + 1, <<>>)
    ELSE SplitFrom(s, i + 1, Append(piece, s[i]))

---------------------------------------------------------------------------
(* Results *)

Ok(v) == [ok |-> TRUE, value |-> v]
Err(kind, message) == [ok |-> FALSE, err |-> kind, msg |-> message]
\* A Rust panic of the calling thread: no value is returned at all.
Panic == [ok |-> FALSE, err |-> "panic", msg |-> "byte index 1 is out of bounds"]
Unit == "()"

IsErr(r, kind) == ~r.ok /\ r.err = kind

---------------------------------------------------------------------------
(* Keys and values of a table *)

TableKey(name) == [tag |-> "Table", name |-> name]
\* KeyType::Record with the tag of a Table: the two keys of one name are equal.
RecordKey_untagged(name) == [tag |-> "Table", name |-> name]
RecordKey(name) == [tag |-> "Record", name |-> name]
QueueKey(name) == [tag |-> "Queue", name |-> name]

TablePointer(t) == [type |-> "TablePointer", table |-> t]
RecordPointer(s) == [type |-> "RecordPointer", value |-> s]
QueuePointer(q) == [type |-> "QueuePointer", queue |-> q]

\* Table::new(): a BTreeMap with no entry.
EmptyTable == <<>>

\* The position of a variant in the declaration of KeyType, which the derived
\* Ord compares first.
VariantIndex(tag) == CASE tag = "Table" -> 0 [] tag = "Record" -> 1 [] tag = "Queue" -> 2

\* <KeyType as Ord>::cmp, the order the BTreeMap keeps its keys in: -1, 0 or 1.
KeyCmp(a, b) ==
    IF VariantIndex(a.tag) < VariantIndex(b.tag) THEN -1
    ELSE IF VariantIndex(a.tag) > VariantIndex(b.tag) THEN 1
    ELSE StrCmp(a.name, b.name)

\* BTreeMap::iter(): the keys of a table in ascending order.
RECURSIVE SortKeys(_)
SortKeys(S) ==
    IF S = {} THEN <<>>
    ELSE LET least == CHOOSE x \in S : \A y \in S : KeyCmp(x, y) <= 0
         IN  <<least>> \o SortKeys(S \ {least})

\* BTreeMap::insert(key, value)
MapInsert(t, k, v) == [x \in DOMAIN t \cup {k} |-> IF x = k THEN v ELSE t[x]]

\* BTreeMap::remove(key)
MapRemove(t, k) ==
    IF DOMAIN t \ {k} = {} THEN EmptyTable
    ELSE [x \in DOMAIN t \ {k} |-> t[x]]

---------------------------------------------------------------------------
(* Database: src/datastore/mod.rs and src/datastore/utilities/internal.rs *)

\* The configured database name (Config.db_name, "root" by default).
db_name == <<"r", "o", "o", "t">>

\* validate_key with the empty piece after a trailing '/' kept as a segment.
validate_key_trailing(key_string, name) ==
    IF Len(key_string) < 1 THEN Panic
    ELSE IF SubSeq(key_string, 1, 1) # <<Slash>>
        THEN Err("InvalidKey", "Key must begin with '/' sign")
    ELSE LET pieces == SplitFrom(key_string, 1, <<>>)
             key_routes == IF key_string[Len(key_string)] = Slash /\ Len(pieces) >= 1
                              THEN Append(pieces, <<>>)
                           ELSE pieces
         IN
        IF Len(key_routes) < 1
            THEN Err("InvalidKey", "Key must contain at least 1 items, e.g.: /root/status")
        ELSE IF key_routes[1] # name
            THEN Err("InvalidKey", "Key does not begin with the root table")
        ELSE Ok(key_routes)

\* validate_key: parse the key string into its route, or fail. Slicing the
\* first byte of an empty string panics.
validate_key(key_string, name) ==
    IF Len(key_string) < 1 THEN Panic
    ELSE IF SubSeq(key_string, 1, 1) # <<Slash>>
        THEN Err("InvalidKey", "Key must begin with '/' sign")
    ELSE LET key_routes == SplitFrom(key_string, 1, <<>>) IN
        IF Len(key_routes) < 1
            THEN Err("InvalidKey", "Key must contain at least 1 items, e.g.: /root/status")
        ELSE IF key_routes[1] # name
            THEN Err("InvalidKey", "Key does not begin with the root table")
        ELSE Ok(key_routes)

NoTable == [found |-> FALSE]
SomeTable(t) == [found |-> TRUE, table |-> t]

\* find_table / find_table_mut: walk every segment of routes as a table step.
RECURSIVE find_table(_, _)
find_table(db, routes) ==
    IF Len(routes) = 0 THEN SomeTable(db)
    ELSE LET current_table == TableKey(routes[1]) IN
        IF current_table \in DOMAIN db /\ db[current_table].type = "TablePointer"
            THEN find_table(db[current_table].table, Tail(routes))
        ELSE NoTable

\* What the tree becomes when the table find_table_mut returned for routes is
\* changed in place to new (routes is known to lead to a table).
RECURSIVE WriteTable(_, _, _)
WriteTable(db, routes, new) ==
    IF Len(routes) = 0 THEN new
    ELSE LET current_table == TableKey(routes[1]) IN
        [db EXCEPT ![current_table] =
            TablePointer(WriteTable(db[current_table].table, Tail(routes), new))]

\* The loop of Database::insert refusing a segment that names a record and no
\* table.
RECURSIVE InsertWalk_strict(_, _, _, _)
InsertWalk_strict(table, key_routes, route_index, value) ==
    LET last_route == key_routes[Len(key_routes)]
        current_route == key_routes[route_index]
        temp_key == TableKey(current_route)
        entered == IF temp_key \in DOMAIN table THEN table
                   ELSE MapInsert(table, temp_key, TablePointer(EmptyTable))
    IN  IF last_route = current_route
            THEN [result |-> Ok(Unit), table |-> MapInsert(table, RecordKey(last_route), value)]
        ELSE IF RecordKey(current_route) \in DOMAIN table /\ temp_key \notin DOMAIN table
            THEN [result |-> Err("InternalError", "This should not have happen"),
                  table |-> table]
        ELSE LET below == InsertWalk_strict(entered[temp_key].table, key_routes,
                                            route_index + 1, value)
             IN  [result |-> below.result,
                  table |-> [entered EXCEPT ![temp_key] = TablePointer(below.table)]]

\* The loop of Database::insert from route_index on: the walk stops at the
\* first segment whose NAME equals the last segment's.
RECURSIVE InsertWalk(_, _, _, _)
InsertWalk(table, key_routes, route_index, value) ==
    LET last_route == key_routes[Len(key_routes)]
        current_route == key_routes[route_index]
        temp_key == TableKey(current_route)
        entered == IF temp_key \in DOMAIN table THEN table
                   ELSE MapInsert(table, temp_key, TablePointer(EmptyTable))
    IN  IF last_route = current_route
            THEN [result |-> Ok(Unit), table |-> MapInsert(table, RecordKey(last_route), value)]
        ELSE IF entered[temp_key].type # "TablePointer"
            THEN [result |-> Err("InternalError", "This should not have happen"),
                  table |-> entered]
        ELSE LET below == InsertWalk(entered[temp_key].table, key_routes, route_index + 1, value)
             IN  [result |-> below.result,
                  table |-> [entered EXCEPT ![temp_key] = TablePointer(below.table)]]

\* Database::insert(key, value): [result, root], root being the tree afterwards.
insert(db, key, value) ==
    LET key_routes == validate_key(key.name, db_name) IN
    IF ~key_routes.ok THEN [result |-> key_routes, root |-> db]
    ELSE LET walk == InsertWalk(db, key_routes.value, 1, value)
         IN  [result |-> walk.result, root |-> walk.table]

\* Database::get(key)
get(db, key) ==
    IF key.tag = "Table" THEN Err("InvalidKey", "Parameter must be a Record type")
    ELSE LET key_routes == validate_key(key.name, db_name) IN
    IF ~key_routes.ok THEN key_routes
    ELSE LET routes == key_routes.value
             table == find_table(db, SubSeq(routes, 1, Len(routes) - 1))
             find_key == RecordKey(routes[Len(routes)])
         IN  IF ~table.found THEN Err("InvalidKey", "Specified key does not exist")
             ELSE IF find_key \in DOMAIN table.table THEN Ok(table.table[find_key])
             ELSE Err("InvalidKey", "Specified key does not exist")

\* The listing loop with the descent into child tables left out.
RECURSIVE DisplayFrom_flat(_, _, _, _, _)
DisplayFrom_flat(db, keys, i, key_prefix, level) ==
    IF i > Len(keys) THEN <<>>
    ELSE LET key == keys[i]
             rest == DisplayFrom_flat(db, keys, i + 1, key_prefix, level)
         IN  CASE key.tag = "Record" ->
                    <<RecordKey(FormatPath(key_prefix, key.name))>> \o rest
               [] key.tag = "Queue" ->
                    <<QueueKey(FormatPath(key_prefix, key.name))>> \o rest
               [] key.tag = "Table" -> rest

\* display_tables: the keys of db in BTreeMap order, each prefixed.
RECURSIVE display_tables(_, _, _)
RECURSIVE DisplayFrom(_, _, _, _, _)
DisplayFrom(db, keys, i, key_prefix, level) ==
    IF i > Len(keys) THEN <<>>
    ELSE LET key == keys[i]
             rest == DisplayFrom(db, keys, i + 1, key_prefix, level)
         IN  CASE key.tag = "Record" ->
                    <<RecordKey(FormatPath(key_prefix, key.name))>> \o rest
               [] key.tag = "Queue" ->
                    <<QueueKey(FormatPath(key_prefix, key.name))>> \o rest
               [] key.tag = "Table" ->
                    IF level = "OneLevel" THEN rest
                    ELSE IF db[key].type # "TablePointer" THEN rest
                    ELSE display_tables(db[key].table, FormatPath(key_prefix, key.name), level)
                            \o rest

display_tables(db, key_prefix, level) ==
    DisplayFrom(db, SortKeys(DOMAIN db), 1, key_prefix, level)

\* Database::list_keys(key_prefix, level)
list_keys(db, key_prefix, level) ==
    IF key_prefix.tag = "Table" THEN Err("InvalidKey", "Parameter must be a Record type")
    ELSE LET key_routes == validate_key(key_prefix.name, db_name) IN
    IF ~key_routes.ok THEN key_routes
    ELSE LET table == find_table(db, key_routes.value) IN
        IF ~table.found THEN Err("InvalidKey", "Specified route does not exist")
        ELSE Ok(display_tables(table.table, key_prefix.name, level))

\* Option::None where a ValueType may stand.
NoValue == [type |-> "None"]

\* RemoveEntry with the write-back forgotten: the entry is found and Ok is
\* returned, but the tree keeps it.
RemoveEntry_keep(db, routes, delete_key) ==
    LET parent == SubSeq(routes, 1, Len(routes) - 1)
        table == find_table(db, parent)
        missing == [result |-> Err("InvalidKey", "Specified key does not exist"),
                    root |-> db, removed |-> NoValue]
    IN  IF ~table.found THEN missing
        ELSE IF delete_key \in DOMAIN table.table
            THEN [result |-> Ok(Unit), root |-> db, removed |-> table.table[delete_key]]
        ELSE missing

\* The common end of delete_key and delete_table: remove the entry delete_key
\* from the table the route's parent names. removed is what BTreeMap::remove
\* returned.
RemoveEntry(db, routes, delete_key) ==
    LET parent == SubSeq(routes, 1, Len(routes) - 1)
        table == find_table(db, parent)
        missing == [result |-> Err("InvalidKey", "Specified key does not exist"),
                    root |-> db, removed |-> NoValue]
    IN  IF ~table.found THEN missing
        ELSE IF delete_key \in DOMAIN table.table
            THEN [result |-> Ok(Unit),
                  root |-> WriteTable(db, parent, MapRemove(table.table, delete_key)),
                  removed |-> table.table[delete_key]]
        ELSE missing

\* delete_key that, finding no record of the name, takes the table of that
\* name away before it returns its error.
delete_key_greedy(db, key) ==
    IF key.tag = "Table"
        THEN [result |-> Err("InvalidKey", "Parameter must be a Record type"),
              root |-> db, removed |-> NoValue]
    ELSE LET key_routes == validate_key(key.name, db_name) IN
    IF ~key_routes.ok THEN [result |-> key_routes, root |-> db, removed |-> NoValue]
    ELSE LET r == RemoveEntry(db, key_routes.value,
                              RecordKey(key_routes.value[Len(key_routes.value)]))
             t == RemoveEntry(db, key_routes.value,
                              TableKey(key_routes.value[Len(key_routes.value)]))
         IN  IF r.result.ok THEN r
             ELSE [result |-> r.result, root |-> t.root, removed |-> NoValue]

\* delete_key that also takes away the table the record was in when the record
\* was its last entry.
delete_key_prune(db, key) ==
    IF key.tag = "Table"
        THEN [result |-> Err("InvalidKey", "Parameter must be a Record type"),
              root |-> db, removed |-> NoValue]
    ELSE LET key_routes == validate_key(key.name, db_name) IN
    IF ~key_routes.ok THEN [result |-> key_routes, root |-> db, removed |-> NoValue]
    ELSE LET routes == key_routes.value
             parent == SubSeq(routes, 1, Len(routes) - 1)
             r == RemoveEntry(db, routes, RecordKey(routes[Len(routes)]))
         IN  IF r.result.ok /\ Len(parent) >= 1 /\ find_table(r.root, parent) = SomeTable(EmptyTable)
                THEN [r EXCEPT !.root = RemoveEntry(r.root, parent,
                                                    TableKey(parent[Len(parent)])).root]
             ELSE r

\* Database::delete_key(key)
delete_key(db, key) ==
    IF key.tag = "Table"
        THEN [result |-> Err("InvalidKey", "Parameter must be a Record type"),
              root |-> db, removed |-> NoValue]
    ELSE LET key_routes == validate_key(key.name, db_name) IN
    IF ~key_routes.ok THEN [result |-> key_routes, root |-> db, removed |-> NoValue]
    ELSE RemoveEntry(db, key_routes.value,
                     RecordKey(key_routes.value[Len(key_routes.value)]))

\* delete_table removing the record of that name instead of the table.
delete_table_record(db, key) ==
    IF key.tag = "Record"
        THEN [result |-> Err("InvalidKey", "Parameter must be a Table type"),
              root |-> db, removed |-> NoValue]
    ELSE LET key_routes == validate_key(key.name, db_name) IN
    IF ~key_routes.ok THEN [result |-> key_routes, root |-> db, removed |-> NoValue]
    ELSE RemoveEntry(db, key_routes.value,
                     RecordKey(key_routes.value[Len(key_routes.value)]))

\* Database::delete_table(key)
delete_table(db, key) ==
    IF key.tag = "Record"
        THEN [result |-> Err("InvalidKey", "Parameter must be a Table type"),
              root |-> db, removed |-> NoValue]
    ELSE LET key_routes == validate_key(key.name, db_name) IN
    IF ~key_routes.ok THEN [result |-> key_routes, root |-> db, removed |-> NoValue]
    ELSE RemoveEntry(db, key_routes.value,
                     TableKey(key_routes.value[Len(key_routes.value)]))

---------------------------------------------------------------------------
(* HookManager: src/hook/mod.rs *)

\* HookManagerResponse
HookOk == [type |-> "Ok"]
HookError(message) == [type |-> "Error", msg |-> message]
HookHook(prefix, links) == [type |-> "Hook", prefix |-> prefix, hooks |-> links]
HookHookList(list) == [type |-> "HookList", list |-> list]

\* Result::Err carrying a HookManagerResponse
ErrResponse(response) == [ok |-> FALSE, response |-> response]

\* hooks.iter().position(|x| x == &link): the first index holding link, 0 for None.
RECURSIVE PositionFrom(_, _, _)
PositionFrom(links, link, i) ==
    IF i > Len(links) THEN 0
    ELSE IF links[i] = link THEN i
    ELSE PositionFrom(links, link, i + 1)

\* position() that finds nothing: every search ends in None.
position_missing(links, link) == 0

position(links, link) == PositionFrom(links, link, 1)

\* Vec::remove that drops the last element whatever the index.
RemoveAt_tail(links, index) == SubSeq(links, 1, Len(links) - 1)

\* Vec::remove(index)
RemoveAt(links, index) ==
    SubSeq(links, 1, index - 1) \o SubSeq(links, index + 1, Len(links))

\* HookManager::add with the search for the link left out: the link is
\* pushed whether or not the prefix holds it already.
add_unchecked(reg, prefix, link) ==
    IF prefix \in DOMAIN reg
        THEN [result |-> Ok(Unit), hooks |-> [reg EXCEPT ![prefix] = Append(@, link)]]
    ELSE [result |-> Ok(Unit), hooks |-> MapInsert(reg, prefix, <<link>>)]

\* HookManager::add(prefix, link): [result, hooks], hooks being the registry
\* afterwards.
add(reg, prefix, link) ==
    IF prefix \in DOMAIN reg
        THEN IF position(reg[prefix], link) # 0
                THEN [result |-> ErrResponse(HookError("Already defined")), hooks |-> reg]
             ELSE [result |-> Ok(Unit), hooks |-> [reg EXCEPT ![prefix] = Append(@, link)]]
    ELSE [result |-> Ok(Unit), hooks |-> MapInsert(reg, prefix, <<link>>)]

\* HookManager::remove that drops the entry of a prefix left with no link.
remove_entry(reg, prefix, link) ==
    IF prefix \in DOMAIN reg /\ position(reg[prefix], link) # 0
        THEN LET links == RemoveAt(reg[prefix], position(reg[prefix], link))
                 others == DOMAIN reg \ {prefix}
             IN  [result |-> Ok(Unit),
                  hooks |-> IF links # <<>> THEN [reg EXCEPT ![prefix] = links]
                            ELSE IF others = {} THEN <<>>
                            ELSE [p \in others |-> reg[p]]]
    ELSE [result |-> ErrResponse(HookError("Not found")), hooks |-> reg]

\* HookManager::remove(prefix, link)
remove(reg, prefix, link) ==
    IF prefix \in DOMAIN reg
        THEN LET index == position(reg[prefix], link) IN
             IF index # 0
                THEN [result |-> Ok(Unit),
                      hooks |-> [reg EXCEPT ![prefix] = RemoveAt(@, index)]]
             ELSE [result |-> ErrResponse(HookError("Not found")), hooks |-> reg]
    ELSE [result |-> ErrResponse(HookError("Not found")), hooks |-> reg]

\* HookManager::get(prefix): Some(hooks) or None
NoHooks == [found |-> FALSE]
SomeHooks(links) == [found |-> TRUE, hooks |-> links]

hook_get(reg, prefix) ==
    IF prefix \in DOMAIN reg THEN SomeHooks(reg[prefix]) ELSE NoHooks

\* HookManager::list with the filter of get: the entry stored under key only.
hook_list_exact(reg, key) ==
    IF key \in DOMAIN reg THEN [p \in {key} |-> reg[p]] ELSE <<>>

\* HookManager::list(key): the entries whose prefix starts with key.
hook_list(reg, key) ==
    LET selected == {p \in DOMAIN reg : StartsWith(p, key)}
    IN  IF selected = {} THEN <<>> ELSE [p \in selected |-> reg[p]]

\* `for (prefix, links) in &self.hooks`: the prefixes in ascending order
\* (String's Ord).
RECURSIVE SortPrefixes(_)
SortPrefixes(S) ==
    IF S = {} THEN <<>>
    ELSE LET least == CHOOSE x \in S : \A y \in S : StrCmp(x, y) <= 0
         IN  <<least>> \o SortPrefixes(S \ {least})

\* client.post(link).json(&body).send().await with body {"key", "value"};
\* answered is FALSE when send() returns Err.
Post(link, key, value, answered) ==
    [link |-> link, key |-> key, value |-> value, answered |-> answered]

\* Option<i32>
NoCount == [some |-> FALSE]
SomeCount(i) == [some |-> TRUE, count |-> i]

\* The inner loop `for link in links`, from link i on: counter += 1, then the
\* request; failing holds the numbers of the requests that end in Err.
RECURSIVE PostLinks(_, _, _, _, _, _)
PostLinks(links, i, key, value, failing, sent) ==
    IF i > Len(links) THEN sent
    ELSE PostLinks(links, i + 1, key, value, failing,
                   Append(sent, Post(links[i], key, value, (Len(sent) + 1) \notin failing)))

\* The outer loop over the map, from the i-th prefix on.
RECURSIVE ExecuteFrom(_, _, _, _, _, _, _)
ExecuteFrom(reg, prefixes, i, key, value, failing, sent) ==
    IF i > Len(prefixes) THEN sent
    ELSE ExecuteFrom(reg, prefixes, i + 1, key, value, failing,
                     IF StartsWith(key, prefixes[i])
                         THEN PostLinks(reg[prefixes[i]], 1, key, value, failing, sent)
                     ELSE sent)

\* execute_hooks that gives up at the first request that fails.
execute_hooks_abort(reg, key, value, failing) ==
    LET all == ExecuteFrom(reg, SortPrefixes(DOMAIN reg), 1, key, value, failing, <<>>)
        bad == {n \in 1..Len(all) : ~all[n].answered}
        sent == IF bad = {} THEN all
                ELSE SubSeq(all, 1, CHOOSE n \in bad : \A m \in bad : n <= m)
    IN  [posts |-> sent,
         result |-> IF Len(sent) = 0 THEN NoCount ELSE SomeCount(Len(sent) - Cardinality(bad \cap 1..Len(sent)))]

\* HookManager::execute_hooks(key, value): the requests issued, in order, and
\* the returned counter.
execute_hooks(reg, key, value, failing) ==
    LET sent == ExecuteFrom(reg, SortPrefixes(DOMAIN reg), 1, key, value, failing, <<>>)
    IN  [posts |-> sent,
         result |-> IF Len(sent) = 0 THEN NoCount ELSE SomeCount(Len(sent))]

---------------------------------------------------------------------------
(* LoggerManager: src/logger/mod.rs *)

\* LogItem, and the line format!("{} {}\n", now, item) makes of it.
LogItem(kind, args) == [kind |-> kind, args |-> args]
LogLine(now, item) == [ts |-> now, item |-> item]

\* The LoggerManager as one value.
Logger(state, handle, buffer, file, clock) ==
    [state |-> state, handle |-> handle, buffer |-> buffer, file |-> file, clock |-> clock]

\* LoggerManager::start; open_ok tells whether File::open succeeds.
start(lm, open_ok) ==
    IF open_ok
        THEN [result |-> Ok(Unit), lm |-> [lm EXCEPT !.handle = TRUE, !.state = "Open"]]
    ELSE [result |-> Err("String", "Failed to open log file"), lm |-> lm]

\* LoggerManager::stop
stop(lm) ==
    IF lm.handle
        THEN [result |-> Ok(Unit), lm |-> [lm EXCEPT !.handle = FALSE]]
    ELSE [result |-> Err("String", "Logger manager does not run"), lm |-> lm]

\* LoggerManager::suspend
suspend(lm) ==
    [result |-> Ok(Unit), lm |-> [lm EXCEPT !.handle = FALSE, !.state = "Suspended"]]

\* The lines resume writes: one per buffered (now, item) pair, in buffer order.
BufferedLines(buffer) == [i \in 1..Len(buffer) |-> LogLine(buffer[i].ts, buffer[i].item)]

\* LoggerManager::resume without the check of the state.
resume_unchecked(lm, open_ok) ==
    LET started == start(lm, open_ok) IN
    IF ~started.result.ok THEN started
    ELSE [result |-> Ok(Unit),
          lm |-> [started.lm EXCEPT !.file = @ \o BufferedLines(lm.buffer),
                                    !.buffer = <<>>,
                                    !.state = "Open"]]

\* LoggerManager::resume that writes the buffer newest pair first.
resume_reversed(lm, open_ok) ==
    IF lm.state # "Suspended"
        THEN [result |-> Err("String", "Only possible resume from LogState::Suspend"),
              lm |-> lm]
    ELSE LET started == start(lm, open_ok)
             lines == BufferedLines(lm.buffer)
         IN
        IF ~started.result.ok THEN started
        ELSE [result |-> Ok(Unit),
              lm |-> [started.lm EXCEPT
                        !.file = @ \o [i \in 1..Len(lines) |-> lines[Len(lines) + 1 - i]],
                        !.buffer = <<>>,
                        !.state = "Open"]]

\* LoggerManager::resume; written is the number of buffered lines
\* file.write_all accepts before it returns Err (the length of the buffer or
\* more when it accepts them all). After a failed write the method has
\* returned in the loop: the file is open, the lines before the failing one
\* are written, the buffer and the state are as they were.
resume_io(lm, open_ok, written) ==
    IF lm.state # "Suspended"
        THEN [result |-> Err("String", "Only possible resume from LogState::Suspend"),
              lm |-> lm]
    ELSE LET started == start(lm, open_ok) IN
        IF ~started.result.ok THEN [result |-> started.result, lm |-> lm]
        ELSE IF written < Len(lm.buffer)
            THEN [result |-> Err("String", "Failed to write log after a resume"),
                  lm |-> [lm EXCEPT !.handle = TRUE,
                                    !.file = @ \o SubSeq(BufferedLines(lm.buffer), 1, written)]]
        ELSE [result |-> Ok(Unit),
              lm |-> [started.lm EXCEPT !.file = @ \o BufferedLines(lm.buffer),
                                        !.buffer = <<>>,
                                        !.state = "Open"]]

\* LoggerManager::resume when every write_all succeeds.
resume(lm, open_ok) == resume_io(lm, open_ok, Len(lm.buffer))

\* LoggerManager::write that buffers the item in every state but Open.
write_buffering(lm, item) ==
    LET now == lm.clock
        ticked == [lm EXCEPT !.clock = @ + 1]
    IN  IF lm.state = "Open" /\ lm.handle
            THEN [result |-> Ok(Unit),
                  lm |-> [ticked EXCEPT !.file = Append(@, LogLine(now, item))]]
        ELSE [result |-> Ok(Unit),
              lm |-> [ticked EXCEPT !.buffer = Append(@, [ts |-> now, item |-> item])]]

\* LoggerManager::write(item)
write(lm, item) ==
    LET now == lm.clock
        ticked == [lm EXCEPT !.clock = @ + 1]
    IN  CASE lm.state = "Close" ->
                [result |-> Err("String", "Stream is closed, start required for logger"),
                 lm |-> ticked]
          [] lm.state = "Open" ->
                IF lm.handle
                    THEN [result |-> Ok(Unit),
                          lm |-> [ticked EXCEPT !.file = Append(@, LogLine(now, item))]]
                ELSE [result |-> Err("String", "wanted to write log while logging was not started"),
                      lm |-> ticked]
          [] lm.state = "Suspended" ->
                [result |-> Ok(Unit),
                 lm |-> [ticked EXCEPT !.buffer = Append(@, [ts |-> now, item |-> item])]]

---------------------------------------------------------------------------
(* The inputs the callers draw *)

\* Segment names: the database name itself and two others.
Names == {db_name, <<"a">>, <<"b">>}

\* The record values the callers store.
Values == {"v1", "v2"}

ListTypes == {"OneLevel", "All"}

\* Every route of at most n segments over Names.
RECURSIVE RoutesUpTo(_)
RoutesUpTo(n) ==
    IF n = 0 THEN {<<>>}
    ELSE LET shorter == RoutesUpTo(n - 1)
         IN  shorter \cup {Append(r, x) : r \in shorter, x \in Names}

\* "/seg1/seg2/.../segN"
RECURSIVE Path(_)
Path(segs) ==
    IF segs = <<>> THEN <<>>
    ELSE <<Slash>> \o Head(segs) \o Path(Tail(segs))

\* The well-formed keys: the root name, then up to MaxSegs - 1 segments.
WellFormedKeys == {Path(<<db_name>> \o r) : r \in RoutesUpTo(MaxSegs - 1)}

\* Keys validate_key has to reject or to normalise: the empty string, "/", a
\* key with no leading '/', a key under another root, a trailing '/', "//".
RelativeKeys == {Tail(Path(<<db_name, x>>)) : x \in Names \ {db_name}}
ForeignKeys == UNION {{Path(<<x>>), Path(<<x, db_name>>)} : x \in Names \ {db_name}}
TrailingKeys == {Path(<<db_name>> \o r) \o <<Slash>> : r \in RoutesUpTo(1)}
DoubledKeys == {<<Slash>> \o Path(<<db_name>>) \o <<Slash>> \o Path(<<x>>) : x \in Names \ {db_name}}
OddKeys ==
    {<<>>, <<Slash>>} \cup RelativeKeys \cup ForeignKeys \cup TrailingKeys \cup DoubledKeys

KeyStrings == WellFormedKeys \cup OddKeys

\* The prefixes hooks are registered under and asked for, and the links.
Prefixes == {Path(<<db_name>>), Path(<<db_name, <<"a">> >>), Path(<<db_name, <<"b">> >>)}
Links == {"http://a", "http://b"}

\* What list is asked for: the prefixes, the empty string, "/root/" (the
\* start of some prefixes, equal to none), and strings no prefix starts with.
Queries ==
    Prefixes \cup {<<>>, Path(<<db_name>>) \o <<Slash>>,
                   Path(<<db_name, <<"a">>, <<"a">> >>), Path(<<"a">>)}

\* The keys execute_hooks is called with: under two prefixes, under one,
\* a prefix itself, and under none.
TriggerKeys ==
    {Path(<<db_name, <<"a">>, <<"a">> >>), Path(<<db_name, <<"b">> >>), Path(<<db_name>>),
     Path(<<"a">>)}

---------------------------------------------------------------------------
(* The Database called directly, as src/utilities/tests.rs calls it *)

NoCall == [op |-> "none"]

\* The calling thread is gone: its last call panicked.
Panicked == last.op # "none" /\ last.result = Panic

\* One more call is made, within the bound of the run.
Counted ==
    /\ ncalls < MaxCalls
    /\ ~Panicked
    /\ ncalls' = ncalls + 1

\* What the worker and the tests pass: KeyType::Record(key) to insert, get,
\* delete_key and list_keys, KeyType::Table(key) to delete_table.
Insert(k, v) ==
    LET r == insert(root, RecordKey(k), RecordPointer(v)) IN
    /\ root' = r.root
    /\ last' = [op |-> "insert", key |-> k, value |-> v, result |-> r.result]
    /\ UNCHANGED <<workerVars, hookVars, logVars, lifeVars>>

Get(k) ==
    /\ last' = [op |-> "get", key |-> k, result |-> get(root, RecordKey(k))]
    /\ UNCHANGED <<root, workerVars, hookVars, logVars, lifeVars>>

ListKeys(k, level) ==
    /\ last' = [op |-> "list_keys", key |-> k, level |-> level,
                result |-> list_keys(root, RecordKey(k), level)]
    /\ UNCHANGED <<root, workerVars, hookVars, logVars, lifeVars>>

DeleteKey(k) ==
    LET r == delete_key(root, RecordKey(k)) IN
    /\ root' = r.root
    /\ last' = [op |-> "delete_key", key |-> k, result |-> r.result, removed |-> r.removed]
    /\ UNCHANGED <<workerVars, hookVars, logVars, lifeVars>>

DeleteTable(k) ==
    LET r == delete_table(root, TableKey(k)) IN
    /\ root' = r.root
    /\ last' = [op |-> "delete_table", key |-> k, result |-> r.result, removed |-> r.removed]
    /\ UNCHANGED <<workerVars, hookVars, logVars, lifeVars>>

\* The state after construction: Database::new(root_name), HookManager::new(),
\* LoggerManager::new(path), and a datastore worker given a hook channel
\* (hook) and a logger channel (logger) or not. A logger that is attached has
\* been started by its worker.
Started(hook, logger) ==
    /\ root = EmptyTable
    /\ last = NoCall
    /\ ncalls = 0
    /\ chan = <<>>
    /\ thread = "running"
    /\ wpc = "recv"
    /\ cur = NoCall
    /\ replies = <<>>
    /\ received = <<>>
    /\ nsent = 0
    /\ emitted = <<>>
    /\ hook_sender = hook
    /\ logger_sender = logger
    /\ hookChan = <<>>
    /\ hookResp = <<>>
    /\ hooks = <<>>
    /\ hookLast = NoCall
    /\ posts = <<>>
    /\ logChan = <<>>
    /\ logResp = <<>>
    /\ logState = IF logger THEN "Open" ELSE "Close"
    /\ logHandle = logger
    /\ logBuffer = <<>>
    /\ logFile = <<>>
    /\ logClock = 0
    /\ logLast = NoCall
    /\ suspendedWrites = <<>>
    /\ senders = TRUE
    /\ hookSenders = hook
    /\ hookThread = IF hook THEN "running" ELSE "none"
    /\ logThread = IF logger THEN "running" ELSE "none"
    /\ deaf = {}
    /\ logSent = <<>>

\* The Database and the HookManager called directly, no worker around them.
Init == Started(FALSE, FALSE)

\* The keys of the listing example of the tests and of the documentation.
K_root == Path(<<db_name>>)
K_status == Path(<<db_name, <<"s", "t", "a", "t", "u", "s">> >>)
K_sub1 == Path(<<db_name, <<"s", "t", "a", "t", "u", "s">>, <<"s", "u", "b", "1">> >>)
K_sub2 == Path(<<db_name, <<"s", "t", "a", "t", "u", "s">>, <<"s", "u", "b", "2">> >>)
K_node_name == Path(<<db_name, <<"n", "o", "d", "e", "_", "n", "a", "m", "e">> >>)
ExampleRecords == {K_status, K_sub1, K_sub2, K_node_name}
ExampleKeys == ExampleRecords \cup {K_root}

DbNext ==
    \/ \E k \in KeyStrings, v \in Values : Counted /\ Insert(k, v)
    \/ \E k \in KeyStrings : Counted /\ Get(k)
    \/ \E k \in KeyStrings, level \in ListTypes : Counted /\ ListKeys(k, level)
    \/ \E k \in KeyStrings : Counted /\ DeleteKey(k)
    \/ \E k \in KeyStrings : Counted /\ DeleteTable(k)

\* The same calls on the keys of the listing example, any number of them.
ExampleNext ==
    \/ \E k \in ExampleKeys, v \in Values : ~Panicked /\ Insert(k, v) /\ UNCHANGED ncalls
    \/ \E k \in ExampleKeys : ~Panicked /\ Get(k) /\ UNCHANGED ncalls
    \/ \E k \in ExampleKeys, level \in ListTypes : ~Panicked /\ ListKeys(k, level) /\ UNCHANGED ncalls
    \/ \E k \in ExampleKeys : ~Panicked /\ DeleteKey(k) /\ UNCHANGED ncalls
    \/ \E k \in ExampleKeys : ~Panicked /\ DeleteTable(k) /\ UNCHANGED ncalls

SpecDb == Init /\ [][DbNext]_vars

SpecExample == Init /\ [][ExampleNext]_vars

\* db.insert(key, value) as the signature of insert admits it: a key of any
\* variant with a value of any variant.
InsertTyped(k, tag, value) ==
    LET r == insert(root, [tag |-> tag, name |-> k], value) IN
    /\ root' = r.root
    /\ last' = [op |-> "insert", key |-> k, tag |-> tag, value |-> value, result |-> r.result]
    /\ UNCHANGED <<workerVars, hookVars, logVars, lifeVars>>

\* Calls of insert with every pairing of key variant and value variant, and
\* the two deletes, on three keys.
TypedNext ==
    \/ \E k \in {Path(<<db_name, <<"a">> >>), Path(<<db_name, <<"b">> >>),
                  Path(<<db_name, <<"a">>, <<"b">> >>)},
          tag \in {"Table", "Record", "Queue"},
          value \in {RecordPointer("v1"), TablePointer(EmptyTable), QueuePointer(<<>>),
                     QueuePointer(<<"v1">>)} :
            Counted /\ InsertTyped(k, tag, value)
    \/ \E k \in {Path(<<db_name, <<"a">> >>), Path(<<db_name, <<"a">>, <<"b">> >>)} :
            Counted /\ DeleteKey(k)
    \/ \E k \in {Path(<<db_name>>), Path(<<db_name, <<"a">> >>)} :
            Counted /\ DeleteTable(k)

SpecTyped == Init /\ [][TypedNext]_vars

---------------------------------------------------------------------------
(* The HookManager called directly, as src/tests/hook_manager.rs calls it *)

\* One more call is made on the HookManager, within the bound of the run.
HookCounted ==
    /\ ncalls < MaxHookCalls
    /\ ncalls' = ncalls + 1

ManagerAdd(prefix, link) ==
    LET r == add(hooks, prefix, link) IN
    /\ hooks' = r.hooks
    /\ hookLast' = [op |-> "add", prefix |-> prefix, link |-> link, result |-> r.result]
    /\ UNCHANGED <<root, last, workerVars, hookChan, hookResp, posts, logVars, lifeVars>>

ManagerRemove(prefix, link) ==
    LET r == remove(hooks, prefix, link) IN
    /\ hooks' = r.hooks
    /\ hookLast' = [op |-> "remove", prefix |-> prefix, link |-> link, result |-> r.result]
    /\ UNCHANGED <<root, last, workerVars, hookChan, hookResp, posts, logVars, lifeVars>>

ManagerGet(prefix) ==
    /\ hookLast' = [op |-> "get", prefix |-> prefix, result |-> hook_get(hooks, prefix)]
    /\ UNCHANGED <<root, last, workerVars, hookChan, hookResp, hooks, posts, logVars, lifeVars>>

ManagerList(key) ==
    /\ hookLast' = [op |-> "list", prefix |-> key, result |-> hook_list(hooks, key)]
    /\ UNCHANGED <<root, last, workerVars, hookChan, hookResp, hooks, posts, logVars, lifeVars>>

\* manager.execute_hooks(&key, &value).await; the requests numbered in failing
\* get no answer.
ManagerExecute(key, value, failing) ==
    LET r == execute_hooks(hooks, key, value, failing) IN
    /\ posts' = posts \o r.posts
    /\ hookLast' = [op |-> "execute_hooks", key |-> key, value |-> value,
                    posts |-> r.posts, result |-> r.result]
    /\ UNCHANGED <<root, last, workerVars, hookChan, hookResp, hooks, logVars, lifeVars>>

HookNext ==
    \/ \E prefix \in Prefixes, link \in Links : HookCounted /\ ManagerAdd(prefix, link)
    \/ \E prefix \in Prefixes, link \in Links : HookCounted /\ ManagerRemove(prefix, link)
    \/ \E prefix \in Prefixes : HookCounted /\ ManagerGet(prefix)
    \/ \E key \in Queries : HookCounted /\ ManagerList(key)
    \/ \E key \in TriggerKeys, value \in Values :
            HookCounted /\
            \E failing \in SUBSET (1..Len(execute_hooks(hooks, key, value, {}).posts)) :
                ManagerExecute(key, value, failing)

SpecHook == Init /\ [][HookNext]_vars

---------------------------------------------------------------------------
(* The datastore worker: start_datastore, src/datastore/utilities/mod.rs *)

\* The key strings the callers of the worker send: two well-formed keys, the
\* empty string, a key without the leading '/', a key under another root.
WorkerKeys ==
    {Path(<<db_name, <<"a">> >>), Path(<<db_name, <<"b">> >>),
     <<>>, Tail(Path(<<db_name, <<"a">> >>)), Path(<<"a">>)}

WorkerPrefix == Path(<<db_name, <<"a">> >>)
WorkerLink == "http://a"

\* DatabaseAction, the reply sender left out (a request's id stands for it).
DataRequests ==
    {[op |-> "Get", key |-> k] : k \in WorkerKeys}
    \cup {[op |-> "Set", key |-> k, value |-> v] : k \in WorkerKeys, v \in Values}
    \cup {[op |-> "DeleteKey", key |-> k] : k \in WorkerKeys}
    \cup {[op |-> "DeleteTable", key |-> k] : k \in WorkerKeys}
    \cup {[op |-> "ListKeys", key |-> k, level |-> "All"] : k \in WorkerKeys}

HookRequests ==
    {[op |-> "HookSet", prefix |-> WorkerPrefix, link |-> WorkerLink],
     [op |-> "HookGet", prefix |-> WorkerPrefix],
     [op |-> "HookList", prefix |-> WorkerPrefix],
     [op |-> "HookRemove", prefix |-> WorkerPrefix, link |-> WorkerLink]}

LogRequests == {[op |-> "ResumeLog"], [op |-> "SuspendLog"]}

Requests == DataRequests \cup HookRequests \cup LogRequests

\* rx.recv() with the next element other than the oldest.
Recv_newest(ch) ==
    [data |-> ch[Len(ch)], rest |-> SubSeq(ch, 1, Len(ch) - 1)]

\* rx.recv() on a channel that holds a message: the oldest one.
Recv(ch) == [data |-> Head(ch), rest |-> Tail(ch)]

\* send_response!: the value arrives on the reply channel of request id. When
\* the caller has dropped the Receiver the send fails, which is traced only.
send_response(sent, id, value) ==
    IF id \in deaf THEN sent
    ELSE Append(sent, [id |-> id, value |-> value])

\* write_log!, under `if let Some(sender) = &db.logger_sender`. When the
\* logger has dropped its Receiver the send fails, which is traced only.
write_log(ch, item) ==
    IF logger_sender /\ logThread = "running"
        THEN Append(ch, [type |-> "WriteAsync", items |-> <<item>>])
    ELSE ch

\* The sends of a handler with the log item first and the reply after it.
Sends_log_first(id, item) ==
    (IF logger_sender THEN <<[kind |-> "log", id |-> id, item |-> item]>> ELSE <<>>)
        \o <<[kind |-> "reply", id |-> id]>>

\* The sends a handler ends with, in the order of its statements: the reply
\* (send_response!, hook_inactive!, hook_receive_failed!), then write_log!
\* when a logger is attached.
Sends(id, item) ==
    <<[kind |-> "reply", id |-> id]>>
        \o (IF logger_sender THEN <<[kind |-> "log", id |-> id, item |-> item]>> ELSE <<>>)

\* A caller sends a request: sender.send(action). A worker that panicked has
\* dropped its receiver, and the send fails.
Send(r) ==
    /\ nsent < MaxReq
    /\ senders
    /\ thread = "running"
    /\ nsent' = nsent + 1
    /\ chan' = Append(chan, [id |-> nsent + 1, req |-> r])
    /\ UNCHANGED <<dbVars, thread, wpc, cur, replies, received, emitted, hook_sender,
                   logger_sender, hookVars, logVars, lifeVars>>

\* The worker is in rx.recv() and the next message is a request of kind op.
Serving(op) ==
    /\ thread = "running"
    /\ wpc = "recv"
    /\ chan # <<>>
    /\ Recv(chan).data.req.op = op

\* The worker takes the next message off its channel.
Taken ==
    /\ chan' = Recv(chan).rest
    /\ received' = Append(received, Recv(chan).data)

\* A data request served with a reply sent by send(..).unwrap(): the thread
\* panics when the caller has dropped the Receiver of the reply.
Served_unwrap_reply(result, db, item) ==
    /\ Taken
    /\ IF result = Panic \/ Recv(chan).data.id \in deaf
        THEN /\ thread' = "panicked"
             /\ cur' = Recv(chan).data
             /\ root' = IF result = Panic THEN root ELSE db
             /\ UNCHANGED <<replies, logChan, emitted>>
       ELSE /\ root' = db
            /\ replies' = send_response(replies, Recv(chan).data.id, result)
            /\ logChan' = write_log(logChan, item)
            /\ emitted' = emitted \o Sends(Recv(chan).data.id, item)
            /\ UNCHANGED <<thread, cur>>
    /\ UNCHANGED <<last, ncalls, wpc, nsent, hook_sender, logger_sender, hookVars,
                   logResp, logState, logHandle, logBuffer, logFile, logClock, logLast,
                   suspendedWrites, lifeVars>>

\* A data request served with a log item sent by send(..).unwrap(): the
\* thread panics, after the reply, when the logger has dropped its Receiver.
Served_unwrap_log(result, db, item) ==
    /\ Taken
    /\ IF result = Panic
        THEN /\ thread' = "panicked"
             /\ cur' = Recv(chan).data
             /\ UNCHANGED <<root, replies, logChan, emitted>>
       ELSE /\ root' = db
            /\ replies' = send_response(replies, Recv(chan).data.id, result)
            /\ logChan' = write_log(logChan, item)
            /\ emitted' = emitted \o Sends(Recv(chan).data.id, item)
            /\ thread' = IF logger_sender /\ logThread # "running" THEN "panicked" ELSE thread
            /\ cur' = IF logger_sender /\ logThread # "running" THEN Recv(chan).data ELSE cur
    /\ UNCHANGED <<last, ncalls, wpc, nsent, hook_sender, logger_sender, hookVars,
                   logResp, logState, logHandle, logBuffer, logFile, logClock, logLast,
                   suspendedWrites, lifeVars>>

\* A data request served to its end: the tree becomes db, the reply is sent,
\* then the log item. A panic in validate_key ends the thread instead.
Served(result, db, item) ==
    /\ Taken
    /\ IF result = Panic
        THEN /\ thread' = "panicked"
             /\ cur' = Recv(chan).data
             /\ UNCHANGED <<root, replies, logChan, emitted>>
       ELSE /\ root' = db
            /\ replies' = send_response(replies, Recv(chan).data.id, result)
            /\ logChan' = write_log(logChan, item)
            /\ emitted' = emitted \o Sends(Recv(chan).data.id, item)
            /\ UNCHANGED <<thread, cur>>
    /\ UNCHANGED <<last, ncalls, wpc, nsent, hook_sender, logger_sender, hookVars,
                   logResp, logState, logHandle, logBuffer, logFile, logClock, logLast,
                   suspendedWrites, lifeVars>>

ServeGet ==
    /\ Serving("Get")
    /\ LET key == Recv(chan).data.req.key IN
       Served(get(root, RecordKey(key)), root, LogItem("GetKey", <<key>>))

ServeSet ==
    /\ Serving("Set")
    /\ LET key == Recv(chan).data.req.key
           value == Recv(chan).data.req.value
           r == insert(root, RecordKey(key), RecordPointer(value))
       IN  Served(r.result, r.root, LogItem("SetKey", <<key, value>>))

ServeDeleteKey ==
    /\ Serving("DeleteKey")
    /\ LET key == Recv(chan).data.req.key
           r == delete_key(root, RecordKey(key))
       IN  Served(r.result, r.root, LogItem("RemKey", <<key>>))

ServeDeleteTable ==
    /\ Serving("DeleteTable")
    /\ LET key == Recv(chan).data.req.key
           r == delete_table(root, TableKey(key))
       IN  Served(r.result, r.root, LogItem("RemPath", <<key>>))

ServeListKeys ==
    /\ Serving("ListKeys")
    /\ LET key == Recv(chan).data.req.key
           level == Recv(chan).data.req.level
       IN  Served(list_keys(root, RecordKey(key), level), root, LogItem("ListKeys", <<key>>))


\* A Hook* request forwarded without looking whether a hook manager is
\* attached.
Forwarded_always(action, item) ==
    /\ Taken
    /\ hookChan' = Append(hookChan, action)
    /\ wpc' = "wait_hook"
    /\ cur' = Recv(chan).data
    /\ UNCHANGED <<dbVars, thread, nsent, emitted, hook_sender, logger_sender, replies,
                   hookResp, hooks, hookLast, posts, logVars, lifeVars>>

\* A Hook* request taken off the channel. With no hook manager attached:
\* hook_inactive!, then the log item. With one: hook_send! puts action on the
\* hook manager's channel and the worker blocks in rx.recv(); when the hook
\* manager has dropped its Receiver the send fails, and hook_send! replies
\* InternalError("") and goes on to the next request (`continue`, no log item).
Forwarded(action, item) ==
    /\ Taken
    /\ IF hook_sender /\ hookThread = "running"
        THEN /\ hookChan' = Append(hookChan, action)
             /\ wpc' = "wait_hook"
             /\ cur' = Recv(chan).data
             /\ UNCHANGED <<replies, logChan, emitted>>
       ELSE IF hook_sender
        THEN /\ replies' = send_response(replies, Recv(chan).data.id,
                                         Err("InternalError", ""))
             /\ emitted' = Append(emitted, [kind |-> "reply", id |-> Recv(chan).data.id])
             /\ UNCHANGED <<hookChan, wpc, cur, logChan>>
       ELSE /\ replies' = send_response(replies, Recv(chan).data.id,
                                        Err("InactiveHookManager", ""))
            /\ logChan' = write_log(logChan, item)
            /\ emitted' = emitted \o Sends(Recv(chan).data.id, item)
            /\ UNCHANGED <<hookChan, wpc, cur>>
    /\ UNCHANGED <<dbVars, thread, nsent, hook_sender, logger_sender, hookResp, hooks,
                   hookLast, posts, logResp, logState, logHandle, logBuffer, logFile, logClock, logLast,
                   suspendedWrites, lifeVars>>

\* The hook round trip answered InvalidKey whatever the hook manager's
\* response was.
Answered_refused(value, item) ==
    /\ hookResp' = Tail(hookResp)
    /\ replies' = send_response(replies, cur.id, Err("InvalidKey", "Hook is not found"))
    /\ logChan' = write_log(logChan, item)
    /\ emitted' = emitted \o Sends(cur.id, item)
    /\ wpc' = "recv"
    /\ cur' = NoCall
    /\ UNCHANGED <<dbVars, chan, thread, received, nsent, hook_sender, logger_sender,
                   hookChan, hooks, hookLast, posts, logResp, logState, logHandle, logBuffer,
                   logFile, logClock, logLast,
                   suspendedWrites, lifeVars>>

\* The hook manager's response arrived: the worker leaves rx.recv(), sends
\* the reply it translates the response to, then the log item.
Answered(value, item) ==
    /\ hookResp' = Tail(hookResp)
    /\ replies' = send_response(replies, cur.id, value)
    /\ logChan' = write_log(logChan, item)
    /\ emitted' = emitted \o Sends(cur.id, item)
    /\ wpc' = "recv"
    /\ cur' = NoCall
    /\ UNCHANGED <<dbVars, chan, thread, received, nsent, hook_sender, logger_sender,
                   hookChan, hooks, hookLast, posts, logResp, logState, logHandle, logBuffer,
                   logFile, logClock, logLast,
                   suspendedWrites, lifeVars>>

\* The worker waits for the hook manager's response to a request of kind op.
Awaiting(op) ==
    /\ thread = "running"
    /\ wpc = "wait_hook"
    /\ cur.req.op = op
    /\ hookResp # <<>>

ServeHookSet ==
    /\ Serving("HookSet")
    /\ LET req == Recv(chan).data.req IN
       Forwarded([type |-> "Set", prefix |-> req.prefix, link |-> req.link],
                 LogItem("SetHook", <<req.prefix, req.link>>))

AnswerHookSet ==
    /\ Awaiting("HookSet")
    /\ Answered(IF Head(hookResp) = HookOk THEN Ok(Unit)
                ELSE Err("InternalError", "Failed to add hook"),
                LogItem("SetHook", <<cur.req.prefix, cur.req.link>>))

ServeHookGet ==
    /\ Serving("HookGet")
    /\ LET req == Recv(chan).data.req IN
       Forwarded([type |-> "Get", prefix |-> req.prefix], LogItem("GetHook", <<req.prefix>>))

AnswerHookGet ==
    /\ Awaiting("HookGet")
    /\ Answered(IF Head(hookResp).type = "Hook"
                    THEN Ok(<<Head(hookResp).prefix, Head(hookResp).hooks>>)
                ELSE Err("InvalidKey", "Hook is not found"),
                LogItem("GetHook", <<cur.req.prefix>>))

ServeHookList ==
    /\ Serving("HookList")
    /\ LET req == Recv(chan).data.req IN
       Forwarded([type |-> "List", prefix |-> req.prefix], LogItem("ListHooks", <<req.prefix>>))

AnswerHookList ==
    /\ Awaiting("HookList")
    /\ Answered(IF Head(hookResp).type = "HookList" THEN Ok(Head(hookResp).list)
                ELSE Err("InvalidKey", "Hook is not found"),
                LogItem("ListHooks", <<cur.req.prefix>>))

ServeHookRemove ==
    /\ Serving("HookRemove")
    /\ LET req == Recv(chan).data.req IN
       Forwarded([type |-> "Remove", prefix |-> req.prefix, link |-> req.link],
                 LogItem("RemHook", <<req.prefix, req.link>>))

AnswerHookRemove ==
    /\ Awaiting("HookRemove")
    /\ Answered(IF Head(hookResp) = HookOk THEN Ok(Unit)
                ELSE Err("InvalidKey", "Hook is not found"),
                LogItem("RemHook", <<cur.req.prefix, cur.req.link>>))

\* ResumeLog / SuspendLog taken off the channel. With a logger attached the
\* action goes to the logger (a send that fails is traced only) and the worker
\* blocks in rx.recv(); with none the branch does nothing: the request ends
\* without a reply.
Delegated(action) ==
    /\ Taken
    /\ IF logger_sender
        THEN /\ logChan' = IF logThread = "running" THEN Append(logChan, action) ELSE logChan
             /\ wpc' = "wait_log"
             /\ cur' = Recv(chan).data
       ELSE UNCHANGED <<logChan, wpc, cur>>
    /\ UNCHANGED <<dbVars, thread, replies, nsent, emitted, hook_sender, logger_sender,
                   hookVars, logResp, logState, logHandle, logBuffer, logFile, logClock, logLast,
                   suspendedWrites, lifeVars>>

\* The logger's response arrived: Ok becomes Ok(()), Err(e) becomes LogError(e).
Reported(op) ==
    /\ thread = "running"
    /\ wpc = "wait_log"
    /\ cur.req.op = op
    /\ logResp # <<>>
    /\ logResp' = Tail(logResp)
    /\ replies' = send_response(replies, cur.id,
                                IF Head(logResp).ok THEN Ok(Unit)
                                ELSE Err("LogError", Head(logResp).msg))
    /\ emitted' = Append(emitted, [kind |-> "reply", id |-> cur.id])
    /\ wpc' = "recv"
    /\ cur' = NoCall
    /\ UNCHANGED <<dbVars, chan, thread, received, nsent, hook_sender, logger_sender,
                   hookVars, logChan, logState, logHandle, logBuffer, logFile, logClock, logLast,
                   suspendedWrites, lifeVars>>

ServeResumeLog == Serving("ResumeLog") /\ Delegated([type |-> "Resume"])

AnswerResumeLog == Reported("ResumeLog")

ServeSuspendLog == Serving("SuspendLog") /\ Delegated([type |-> "Suspend"])

AnswerSuspendLog == Reported("SuspendLog")

\* The callers drop their Senders of the datastore's channel.
DropSender ==
    /\ senders
    /\ senders' = FALSE
    /\ UNCHANGED <<dbVars, workerVars, hookVars, logVars, hookSenders, hookThread, logThread,
                   deaf, logSent>>

\* `while let Ok(data) = rx.recv()`: recv returns Err once the channel is empty
\* and every Sender is dropped; the loop and the thread end, and db goes out of
\* scope with the Senders it holds.
DatastoreExit ==
    /\ thread = "running"
    /\ wpc = "recv"
    /\ chan = <<>>
    /\ ~senders
    /\ thread' = "exited"
    /\ UNCHANGED <<dbVars, chan, wpc, cur, replies, received, nsent, emitted, hook_sender,
                   logger_sender, hookVars, logVars, lifeVars>>

\* The caller that started the hook manager sends on its own clone of the
\* Sender: sender.send(HookManagerAction::Send(key, value)).
Trigger(key, value) ==
    /\ ncalls < MaxTriggers
    /\ hookSenders
    /\ hookThread = "running"
    /\ ncalls' = ncalls + 1
    /\ hookChan' = Append(hookChan, [type |-> "Send", key |-> key, value |-> value])
    /\ UNCHANGED <<root, last, workerVars, hookResp, hooks, hookLast, posts, logVars,
                   lifeVars>>

\* The caller drops its clone of the hook manager's Sender.
DropHookSender ==
    /\ hookSenders
    /\ hookSenders' = FALSE
    /\ UNCHANGED <<dbVars, workerVars, hookVars, logVars, senders, hookThread, logThread, deaf,
                   logSent>>

---------------------------------------------------------------------------
(* The hook manager worker: start_hook_manager, src/hook/utilities/mod.rs *)

\* The hook manager is in rx.recv() and the next message is of this type.
HookRequest(type) ==
    /\ hookThread = "running"
    /\ hookChan # <<>>
    /\ Head(hookChan).type = type

\* One request handled: the registry becomes reg and response is sent back.
Responded(reg, response) ==
    /\ hookChan' = Tail(hookChan)
    /\ hooks' = reg
    /\ hookResp' = Append(hookResp, response)
    /\ UNCHANGED <<dbVars, workerVars, hookLast, posts, logVars, lifeVars>>

HookManagerSet ==
    /\ HookRequest("Set")
    /\ LET r == add(hooks, Head(hookChan).prefix, Head(hookChan).link) IN
       Responded(r.hooks, IF r.result.ok THEN HookOk ELSE r.result.response)

HookManagerRemove ==
    /\ HookRequest("Remove")
    /\ LET r == remove(hooks, Head(hookChan).prefix, Head(hookChan).link) IN
       Responded(r.hooks, IF r.result.ok THEN HookOk ELSE r.result.response)

HookManagerGet ==
    /\ HookRequest("Get")
    /\ LET r == hook_get(hooks, Head(hookChan).prefix) IN
       Responded(hooks, IF r.found THEN HookHook(Head(hookChan).prefix, r.hooks)
                        ELSE HookError("Not found"))

HookManagerList ==
    /\ HookRequest("List")
    /\ Responded(hooks, HookHookList(hook_list(hooks, Head(hookChan).prefix)))

\* HookManagerAction::Send(test_key, value): the hooks are executed, nothing
\* is sent back; the requests numbered in failing get no answer.
HookManagerSend(failing) ==
    /\ HookRequest("Send")
    /\ hookChan' = Tail(hookChan)
    /\ posts' = posts \o execute_hooks(hooks, Head(hookChan).key, Head(hookChan).value,
                                       failing).posts
    /\ UNCHANGED <<dbVars, workerVars, hookResp, hooks, hookLast, logVars, lifeVars>>

\* Every Sender of the hook manager's channel is gone: the caller's clone and
\* the one the datastore worker holds in db.hook_sender while its thread lives.
HookChannelClosed ==
    /\ ~hookSenders
    /\ ~(hook_sender /\ thread = "running")

\* rx.recv() returns Err on the closed, empty channel: panic!("Hook manager
\* failed: {}", e).
HookManagerFail ==
    /\ hookThread = "running"
    /\ hookChan = <<>>
    /\ HookChannelClosed
    /\ hookThread' = "panicked"
    /\ UNCHANGED <<dbVars, workerVars, hookVars, logVars, senders, hookSenders, logThread,
                   deaf, logSent>>

---------------------------------------------------------------------------
(* The logger worker: the receive loop around the LoggerManager *)

TheLogger == Logger(logState, logHandle, logBuffer, logFile, logClock)

LoggerBecomes(lm) ==
    /\ logState' = lm.state
    /\ logHandle' = lm.handle
    /\ logBuffer' = lm.buffer
    /\ logFile' = lm.file
    /\ logClock' = lm.clock

\* The items of a message written last item first.
RECURSIVE WriteAll_reversed(_, _)
WriteAll_reversed(lm, items) ==
    IF items = <<>> THEN lm
    ELSE write(WriteAll_reversed(lm, Tail(items)), Head(items)).lm

\* Each item of a WriteAsync is written in turn; an error is traced only.
RECURSIVE WriteAll(_, _)
WriteAll(lm, items) ==
    IF items = <<>> THEN lm
    ELSE WriteAll(write(lm, Head(items)).lm, Tail(items))

LoggerRequest(type) ==
    /\ logThread = "running"
    /\ logChan # <<>>
    /\ Head(logChan).type = type

LoggerWriteAsync ==
    /\ LoggerRequest("WriteAsync")
    /\ logChan' = Tail(logChan)
    /\ LoggerBecomes(WriteAll(TheLogger, Head(logChan).items))
    /\ UNCHANGED <<dbVars, workerVars, hookVars, logResp, logLast, suspendedWrites, lifeVars>>

\* The reply to a Write: Ok when every write returned Ok, else the error of
\* the first write that failed.
RECURSIVE WriteReply(_, _)
WriteReply(lm, items) ==
    IF items = <<>> THEN Ok(Unit)
    ELSE IF ~write(lm, Head(items)).result.ok THEN write(lm, Head(items)).result
    ELSE WriteReply(write(lm, Head(items)).lm, Tail(items))

\* Write(reply, items): each item is written in turn, then the reply is sent.
LoggerWrite ==
    /\ LoggerRequest("Write")
    /\ logChan' = Tail(logChan)
    /\ LoggerBecomes(WriteAll(TheLogger, Head(logChan).items))
    /\ logResp' = Append(logResp, WriteReply(TheLogger, Head(logChan).items))
    /\ UNCHANGED <<dbVars, workerVars, hookVars, logLast, suspendedWrites, lifeVars>>

LoggerSuspend ==
    /\ LoggerRequest("Suspend")
    /\ logChan' = Tail(logChan)
    /\ LoggerBecomes(suspend(TheLogger).lm)
    /\ logResp' = Append(logResp, suspend(TheLogger).result)
    /\ UNCHANGED <<dbVars, workerVars, hookVars, logLast, suspendedWrites, lifeVars>>

LoggerResume(open_ok) ==
    /\ LoggerRequest("Resume")
    /\ logChan' = Tail(logChan)
    /\ LoggerBecomes(resume(TheLogger, open_ok).lm)
    /\ logResp' = Append(logResp, resume(TheLogger, open_ok).result)
    /\ UNCHANGED <<dbVars, workerVars, hookVars, logLast, suspendedWrites, lifeVars>>

\* The logger's channel has lost its Sender, the one the datastore worker holds
\* in db.logger_sender, and is empty: the receive loop ends.
LoggerExit ==
    /\ logThread = "running"
    /\ logChan = <<>>
    /\ ~(logger_sender /\ thread = "running")
    /\ logThread' = "exited"
    /\ UNCHANGED <<dbVars, workerVars, hookVars, logVars, senders, hookSenders, hookThread,
                   deaf, logSent>>

---------------------------------------------------------------------------
(* The LoggerManager called directly, as src/tests/logger.rs calls it *)

\* The items the callers write.
LogItems ==
    {LogItem("GetKey", <<Path(<<db_name, <<"a">> >>)>>),
     LogItem("SetKey", <<Path(<<db_name, <<"a">> >>), "v1">>)}

\* One more call is made on the LoggerManager, within the bound of the run.
\* logLast keeps the call, its result, and the state and the handle it found.
LogCalled(call, r) ==
    /\ ncalls < MaxLogCalls
    /\ ncalls' = ncalls + 1
    /\ LoggerBecomes(r.lm)
    /\ logLast' = [op |-> call.op, item |-> call.item, state |-> logState,
                   handle |-> logHandle, result |-> r.result]
    /\ UNCHANGED <<root, last, workerVars, hookVars, logChan, logResp, lifeVars>>

NoItem == LogItem("none", <<>>)

ManagerStart(open_ok) ==
    /\ LogCalled([op |-> "start", item |-> NoItem], start(TheLogger, open_ok))
    /\ UNCHANGED suspendedWrites

ManagerStop ==
    /\ LogCalled([op |-> "stop", item |-> NoItem], stop(TheLogger))
    /\ UNCHANGED suspendedWrites

ManagerSuspend ==
    /\ LogCalled([op |-> "suspend", item |-> NoItem], suspend(TheLogger))
    /\ UNCHANGED suspendedWrites

\* suspendedWrites: what the caller wrote while the logger was Suspended,
\* since the last resume that succeeded.
ManagerResume(open_ok) ==
    /\ LogCalled([op |-> "resume", item |-> NoItem], resume(TheLogger, open_ok))
    /\ suspendedWrites' = IF resume(TheLogger, open_ok).result.ok THEN <<>>
                          ELSE suspendedWrites

ManagerWrite(item) ==
    /\ LogCalled([op |-> "write", item |-> item], write(TheLogger, item))
    /\ suspendedWrites' = IF logState = "Suspended" THEN Append(suspendedWrites, item)
                          ELSE suspendedWrites

\* resume() in which the write of one of the buffered lines fails: written
\* lines were accepted before it.
ManagerResumeFailing(written) ==
    /\ logState = "Suspended"
    /\ written < Len(logBuffer)
    /\ LogCalled([op |-> "resume", item |-> NoItem], resume_io(TheLogger, TRUE, written))
    /\ UNCHANGED suspendedWrites

LogNext ==
    \/ \E open_ok \in BOOLEAN : ManagerStart(open_ok)
    \/ ManagerStop
    \/ ManagerSuspend
    \/ \E open_ok \in BOOLEAN : ManagerResume(open_ok)
    \/ \E written \in 0..MaxLogCalls : ManagerResumeFailing(written)
    \/ \E item \in LogItems : ManagerWrite(item)

SpecLog == Init /\ [][LogNext]_vars

---------------------------------------------------------------------------
(* The logger worker and a caller that holds its Sender, as test_log3 of
   src/tests/logger.rs does *)

\* The messages the caller sends: the two of test_log3, a Write of one item,
\* Suspend and Resume.
LogMessages ==
    {[type |-> "WriteAsync", items |-> <<LogItem("SetKey", <<Path(<<db_name, <<"a">> >>), "v1">>)>>],
     [type |-> "Write", items |-> <<LogItem("GetKey", <<Path(<<db_name, <<"a">>, <<"1">> >>)>>),
                                   LogItem("GetKey", <<Path(<<db_name, <<"a">>, <<"2">> >>)>>),
                                   LogItem("GetKey", <<Path(<<db_name, <<"a">>, <<"3">> >>)>>)>>],
     [type |-> "Write", items |-> <<LogItem("RemKey", <<Path(<<db_name, <<"a">> >>)>>)>>],
     [type |-> "Suspend"],
     [type |-> "Resume"]}

\* sender.send(action) on the Sender start_logger returned.
SendLog(action) ==
    /\ ncalls < MaxLogSends
    /\ logThread = "running"
    /\ ncalls' = ncalls + 1
    /\ logChan' = Append(logChan, action)
    /\ logSent' = Append(logSent, action)
    /\ UNCHANGED <<root, last, workerVars, hookVars, logResp, logState, logHandle, logBuffer,
                   logFile, logClock, logLast, suspendedWrites, senders, hookSenders,
                   hookThread, logThread, deaf>>

LoggerNext ==
    \/ \E action \in LogMessages : SendLog(action)
    \/ LoggerWriteAsync
    \/ LoggerWrite
    \/ LoggerSuspend
    \/ \E open_ok \in BOOLEAN : LoggerResume(open_ok)

\* start_logger(path) has opened the file; no hook manager is around.
SpecLogger == Started(FALSE, TRUE) /\ [][LoggerNext]_vars

---------------------------------------------------------------------------
(* The three workers and their callers *)

\* start_datastore(name, hook_sender, logger_sender) in each of its four
\* configurations.
WorkerInit == \E hook \in BOOLEAN, logger \in BOOLEAN : Started(hook, logger)

Next ==
    \/ \E r \in Requests : Send(r)
    \/ ServeGet
    \/ ServeSet
    \/ ServeDeleteKey
    \/ ServeDeleteTable
    \/ ServeListKeys
    \/ ServeHookSet
    \/ AnswerHookSet
    \/ ServeHookGet
    \/ AnswerHookGet
    \/ ServeHookList
    \/ AnswerHookList
    \/ ServeHookRemove
    \/ AnswerHookRemove
    \/ ServeResumeLog
    \/ AnswerResumeLog
    \/ ServeSuspendLog
    \/ AnswerSuspendLog
    \/ HookManagerSet
    \/ HookManagerRemove
    \/ HookManagerGet
    \/ HookManagerList
    \/ LoggerWriteAsync
    \/ LoggerSuspend
    \/ \E open_ok \in BOOLEAN : LoggerResume(open_ok)

Spec == WorkerInit /\ [][Next]_vars

\* The workers from start to end: the callers send a few kinds of requests,
\* drop their Senders at any moment, and the three threads end.
LifeRequests ==
    {[op |-> "Set", key |-> WorkerPrefix, value |-> "v1"],
     [op |-> "Get", key |-> WorkerPrefix],
     [op |-> "HookSet", prefix |-> WorkerPrefix, link |-> WorkerLink],
     [op |-> "SuspendLog"]}

LifeNext ==
    \/ \E r \in LifeRequests : Send(r)
    \/ DropSender
    \/ \E value \in Values : Trigger(WorkerPrefix, value)
    \/ DropHookSender
    \/ ServeGet
    \/ ServeSet
    \/ ServeHookSet
    \/ AnswerHookSet
    \/ ServeSuspendLog
    \/ AnswerSuspendLog
    \/ DatastoreExit
    \/ HookManagerSet
    \/ \E failing \in SUBSET (1..1) : HookManagerSend(failing)
    \/ HookManagerFail
    \/ LoggerWriteAsync
    \/ LoggerSuspend
    \/ LoggerExit

SpecLife == WorkerInit /\ [][LifeNext]_vars

---------------------------------------------------------------------------
(* The datastore worker among peers that fail: a caller that drops the
   Receiver of its reply, a hook manager or a logger that has dropped the
   Receiver of its channel *)

\* The requests the callers send here; none has a key validate_key panics on.
FaultRequests ==
    {[op |-> "Set", key |-> WorkerPrefix, value |-> "v1"],
     [op |-> "Get", key |-> WorkerPrefix],
     [op |-> "DeleteKey", key |-> WorkerPrefix],
     [op |-> "DeleteTable", key |-> Path(<<db_name>>)],
     [op |-> "ListKeys", key |-> Path(<<db_name>>), level |-> "All"],
     [op |-> "HookSet", prefix |-> WorkerPrefix, link |-> WorkerLink],
     [op |-> "SuspendLog"]}

\* The caller drops the Receiver of the reply channel it sent along with
\* request id, before the worker has answered.
DropReply(id) ==
    /\ id \notin deaf
    /\ \/ \E i \in 1..Len(chan) : chan[i].id = id
       \/ cur # NoCall /\ cur.id = id
    /\ deaf' = deaf \cup {id}
    /\ UNCHANGED <<dbVars, workerVars, hookVars, logVars, senders, hookSenders, hookThread,
                   logThread, logSent>>

\* start_datastore is handed the Sender ends only: the Receiver of the hook
\* manager's or the logger's channel is dropped while the datastore worker
\* runs, and with it the messages in the channel and the reply Senders they
\* carry.
PeerGone(peer) ==
    /\ thread = "running"
    /\ IF peer = "hook"
        THEN /\ hook_sender
             /\ hookThread = "running"
             /\ hookThread' = "gone"
             /\ hookChan' = <<>>
             /\ UNCHANGED <<logThread, logChan>>
       ELSE /\ logger_sender
            /\ logThread = "running"
            /\ logThread' = "gone"
            /\ logChan' = <<>>
            /\ UNCHANGED <<hookThread, hookChan>>
    /\ UNCHANGED <<dbVars, workerVars, hookResp, hooks, hookLast, posts, logResp, logState,
                   logHandle, logBuffer, logFile, logClock, logLast, suspendedWrites,
                   senders, hookSenders, deaf, logSent>>

\* The worker waits in rx.recv() for the hook manager's response and every
\* Sender of that private channel is gone: recv returns Err, the worker replies
\* hook_receive_failed!, then writes the log item.
HookReceiveFailed ==
    /\ thread = "running"
    /\ wpc = "wait_hook"
    /\ hookResp = <<>>
    /\ hookThread # "running"
    /\ replies' = send_response(replies, cur.id,
                                Err("InternalError", "Failed to receive from hook manager"))
    /\ logChan' = write_log(logChan, LogItem("SetHook", <<cur.req.prefix, cur.req.link>>))
    /\ emitted' = emitted \o Sends(cur.id, LogItem("SetHook", <<cur.req.prefix, cur.req.link>>))
    /\ wpc' = "recv"
    /\ cur' = NoCall
    /\ UNCHANGED <<dbVars, chan, thread, received, nsent, hook_sender, logger_sender,
                   hookVars, logResp, logState, logHandle, logBuffer, logFile, logClock,
                   logLast, suspendedWrites, lifeVars>>

\* A failed wait for the logger answered with an InternalError.
LogReceiveFailed_internal ==
    /\ thread = "running"
    /\ wpc = "wait_log"
    /\ logResp = <<>>
    /\ logThread # "running"
    /\ replies' = send_response(replies, cur.id,
                                Err("InternalError", "receiving on a closed channel"))
    /\ emitted' = Append(emitted, [kind |-> "reply", id |-> cur.id])
    /\ wpc' = "recv"
    /\ cur' = NoCall
    /\ UNCHANGED <<dbVars, chan, thread, received, nsent, hook_sender, logger_sender,
                   hookVars, logVars, lifeVars>>

\* The worker waits in rx.recv() for the logger's response and every Sender of
\* that private channel is gone: recv returns Err(e), e the RecvError, and the
\* worker replies LogError(e.to_string()); no log item is written.
LogReceiveFailed ==
    /\ thread = "running"
    /\ wpc = "wait_log"
    /\ logResp = <<>>
    /\ logThread # "running"
    /\ replies' = send_response(replies, cur.id,
                                Err("LogError", "receiving on a closed channel"))
    /\ emitted' = Append(emitted, [kind |-> "reply", id |-> cur.id])
    /\ wpc' = "recv"
    /\ cur' = NoCall
    /\ UNCHANGED <<dbVars, chan, thread, received, nsent, hook_sender, logger_sender,
                   hookVars, logVars, lifeVars>>

FaultNext ==
    \/ \E r \in FaultRequests : Send(r)
    \/ \E id \in 1..MaxReq : DropReply(id)
    \/ \E peer \in {"hook", "logger"} : PeerGone(peer)
    \/ ServeGet
    \/ ServeSet
    \/ ServeDeleteKey
    \/ ServeDeleteTable
    \/ ServeListKeys
    \/ ServeHookSet
    \/ AnswerHookSet
    \/ HookReceiveFailed
    \/ ServeSuspendLog
    \/ AnswerSuspendLog
    \/ LogReceiveFailed
    \/ HookManagerSet
    \/ LoggerWriteAsync
    \/ LoggerSuspend

SpecFault == WorkerInit /\ [][FaultNext]_vars

---------------------------------------------------------------------------
(* The three workers, each scheduled again and again: the hook manager and
   the logger are attached and keep running *)

\* The requests the callers send here, one of them with the empty key.
LiveRequests ==
    {[op |-> "Get", key |-> WorkerPrefix],
     [op |-> "Get", key |-> <<>>],
     [op |-> "Set", key |-> WorkerPrefix, value |-> "v1"],
     [op |-> "HookSet", prefix |-> WorkerPrefix, link |-> WorkerLink],
     [op |-> "HookGet", prefix |-> WorkerPrefix],
     [op |-> "SuspendLog"],
     [op |-> "ResumeLog"]}

LiveNext ==
    \/ \E r \in LiveRequests : Send(r)
    \/ \E value \in Values : Trigger(WorkerPrefix, value)
    \/ ServeGet
    \/ ServeSet
    \/ ServeHookSet
    \/ AnswerHookSet
    \/ ServeHookGet
    \/ AnswerHookGet
    \/ ServeSuspendLog
    \/ AnswerSuspendLog
    \/ ServeResumeLog
    \/ AnswerResumeLog
    \/ HookManagerSet
    \/ HookManagerGet
    \/ \E failing \in SUBSET (1..1) : HookManagerSend(failing)
    \/ LoggerWriteAsync
    \/ LoggerSuspend
    \/ \E open_ok \in BOOLEAN : LoggerResume(open_ok)

\* Each worker is a thread of its own in a loop around rx.recv(): a thread
\* that can take a step is scheduled in the end. Every POST of a hook
\* execution completes or fails, so HookManagerSend is one step that ends. The
\* callers are not bound to send anything.
SpecLive ==
    /\ Started(TRUE, TRUE)
    /\ [][LiveNext]_vars
    /\ WF_vars(ServeGet \/ ServeSet \/ ServeHookSet \/ AnswerHookSet \/ ServeHookGet
                \/ AnswerHookGet \/ ServeSuspendLog \/ AnswerSuspendLog \/ ServeResumeLog
                \/ AnswerResumeLog)
    /\ WF_vars(HookManagerSet \/ HookManagerGet
                \/ \E failing \in SUBSET (1..1) : HookManagerSend(failing))
    /\ WF_vars(LoggerWriteAsync \/ LoggerSuspend \/ \E open_ok \in BOOLEAN : LoggerResume(open_ok))

---------------------------------------------------------------------------
(* Properties of the Database *)

\* Well-formed keys with one or more segments after the root.
DeepKeys == WellFormedKeys \ {K_root}

\* k names an entry strictly below the table path p.
StrictlyBelow(k, p) == StartsWith(k, p \o <<Slash>>) /\ Len(k) > Len(p) + 1

\* k names a direct child of the table path p.
DirectlyBelow(k, p) ==
    /\ StrictlyBelow(k, p)
    /\ \A i \in (Len(p) + 2)..Len(k) : k[i] # Slash

\* The number of Record entries in the whole tree.
RECURSIVE CountRecords(_)
RECURSIVE CountIn(_, _)
CountIn(db, S) ==
    IF S = {} THEN 0
    ELSE LET k == CHOOSE x \in S : TRUE
             here == IF k.tag = "Record" THEN 1
                     ELSE IF db[k].type = "TablePointer" THEN CountRecords(db[k].table)
                     ELSE 0
         IN  here + CountIn(db, S \ {k})

CountRecords(db) == CountIn(db, DOMAIN db)

Stored(db, k) == get(db, RecordKey(k)).ok

\* C1 (as the specification states it): after a Set of a well-formed key
\* with one or more segments after the root replied Ok, Get of the same key
\* returns the value set; a second Set of the key is again a Set, so the same
\* holds of its value.
C1_SetThenGet ==
    (last.op = "insert" /\ last.result.ok /\ last.key \in DeepKeys)
        => get(root, RecordKey(last.key)) = Ok(RecordPointer(last.value))

\* C2 (as the specification states it): a DeleteKey of the key a successful
\* Set has just stored replies Ok, and a Get of that key then replies
\* InvalidKey.
C2_SetDeleteGet ==
    [][(/\ last.op = "insert" /\ last.result.ok /\ last.key \in WellFormedKeys
        /\ last'.op = "delete_key" /\ last'.key = last.key)
            => (/\ last'.result.ok
                /\ IsErr(get(root', RecordKey(last.key)), "InvalidKey"))]_vars

\* C3: when DeleteTable of a table path (/root/x, and /root itself, whose
\* subtree is one level deeper) replies Ok, every key that was stored strictly
\* below that path, at any depth, before the call is answered InvalidKey by
\* Get after it.
C3_DeleteTableDropsSubtree ==
    [][(last'.op = "delete_table" /\ last'.result.ok /\ last'.key \in WellFormedKeys)
            => \A k \in WellFormedKeys :
                (StrictlyBelow(k, last'.key) /\ Stored(root, k))
                    => IsErr(get(root', RecordKey(k)), "InvalidKey")]_vars

\* C3 happens: DeleteTable(/root/x) replied Ok, the table it removed held a
\* record, and Get of that record's key now replies InvalidKey.
C3_Witness ==
    /\ last.op = "delete_table" /\ last.result.ok /\ last.key \in DeepKeys
    /\ last.removed.type = "TablePointer"
    /\ \E e \in DOMAIN last.removed.table :
        /\ e.tag = "Record"
        /\ FormatPath(last.key, e.name) \in WellFormedKeys
        /\ IsErr(get(root, RecordKey(FormatPath(last.key, e.name))), "InvalidKey")

\* The tree holds exactly the four records of the listing example.
HoldsExample(db) ==
    /\ \A k \in ExampleRecords : Stored(db, k)
    /\ CountRecords(db) = 4

\* C5 (as the specification states it): with exactly the four records of the
\* example stored,
\* ListKeys(/root, All) returns them ordered by name, the record before the
\* table of the same name.
C5_ListOrder ==
    (/\ HoldsExample(root)
     /\ last.op = "list_keys" /\ last.key = K_root /\ last.level = "All")
        => last.result = Ok(<<RecordKey(K_node_name), RecordKey(K_status),
                              RecordKey(K_sub1), RecordKey(K_sub2)>>)

\* The keys of a listing, as a set.
Listed(l) == {l[i] : i \in 1..Len(l)}

\* C6: a successful ListKeys of a table path p returns Record keys only, none
\* twice; with All they are exactly the stored keys strictly below p, with
\* OneLevel exactly the stored keys directly below p.
C6_ListKeysExact ==
    (last.op = "list_keys" /\ last.result.ok /\ last.key \in WellFormedKeys)
        => LET l == last.result.value
               p == last.key
           IN  /\ \A i \in 1..Len(l) : l[i].tag = "Record" /\ Stored(root, l[i].name)
               /\ \A i, j \in 1..Len(l) : i # j => l[i] # l[j]
               /\ last.level = "All" =>
                    /\ \A i \in 1..Len(l) : StrictlyBelow(l[i].name, p)
                    /\ \A k \in WellFormedKeys :
                        (StrictlyBelow(k, p) /\ Stored(root, k)) => RecordKey(k) \in Listed(l)
               /\ last.level = "OneLevel" =>
                    /\ \A i \in 1..Len(l) : DirectlyBelow(l[i].name, p)
                    /\ \A k \in WellFormedKeys :
                        (DirectlyBelow(k, p) /\ Stored(root, k)) => RecordKey(k) \in Listed(l)

\* C6 happens: a listing with All that returned a direct child and a record
\* of a nested table, and a listing with OneLevel of a table that holds both
\* a record and a table with a record in it.
C6_Witness ==
    /\ last.op = "list_keys" /\ last.result.ok /\ last.key \in WellFormedKeys
    /\ \E k1, k2 \in WellFormedKeys :
        /\ DirectlyBelow(k1, last.key) /\ Stored(root, k1)
        /\ StrictlyBelow(k2, last.key) /\ ~DirectlyBelow(k2, last.key) /\ Stored(root, k2)
        /\ \/ last.level = "All" /\ Len(last.result.value) = 2
           \/ last.level = "OneLevel" /\ Len(last.result.value) = 1

\* C7 (as the specification states it): from exactly the four records of the
\* example,
\* DeleteTable(/root/status) leaves ListKeys(/root, All) with
\* Record(/root/node_name) alone.
C7_DropSubtree_Original ==
    [][(HoldsExample(root) /\ last'.op = "delete_table" /\ last'.key = K_status)
            => list_keys(root', RecordKey(K_root), "All")
                    = Ok(<<RecordKey(K_node_name)>>)]_vars

\* C7 (amended): from exactly the four records of the example,
\* DeleteTable(/root/status) replies Ok and leaves ListKeys(/root, All) with
\* Record(/root/node_name) and Record(/root/status): the record /root/status
\* is no part of the table /root/status.
C7_DropSubtree ==
    [][(HoldsExample(root) /\ last'.op = "delete_table" /\ last'.key = K_status)
            => /\ last'.result.ok
               /\ list_keys(root', RecordKey(K_root), "All")
                    = Ok(<<RecordKey(K_node_name), RecordKey(K_status)>>)]_vars

\* C7 happens: DeleteTable(/root/status) removed a table holding exactly the
\* records sub1 and sub2, and node_name and status are what is left.
C7_Witness ==
    /\ last.op = "delete_table" /\ last.key = K_status /\ last.result.ok
    /\ last.removed.type = "TablePointer"
    /\ DOMAIN last.removed.table
         = {RecordKey(<<"s", "u", "b", "1">>), RecordKey(<<"s", "u", "b", "2">>)}
    /\ Stored(root, K_node_name) /\ Stored(root, K_status)
    /\ CountRecords(root) = 2


\* The key string with every '/' that another '/' follows, and a trailing
\* '/', taken out.
RECURSIVE Squeeze(_)
Squeeze(s) ==
    IF s = <<>> THEN <<>>
    ELSE IF Head(s) = Slash /\ (Tail(s) = <<>> \/ Head(Tail(s)) = Slash)
        THEN Squeeze(Tail(s))
    ELSE <<Head(s)>> \o Squeeze(Tail(s))

\* Two different key strings that differ only by a trailing '/' or by empty
\* segments.
SameEntry(k1, k2) ==
    /\ k1 # k2
    /\ Squeeze(k1) = Squeeze(k2)
    /\ Squeeze(k1) \in WellFormedKeys

\* The pairs of such keys among the keys the callers draw: a key with a
\* trailing or a doubled '/', and the key without it or another such key.
SamePairs ==
    {pair \in (TrailingKeys \cup DoubledKeys) \X KeyStrings :
        /\ pair[2] \in TrailingKeys \cup DoubledKeys \cup {Squeeze(pair[1])}
        /\ SameEntry(pair[1], pair[2])}

\* C21: keys that differ only by a trailing '/' or by empty segments name the
\* same entry: on every tree a Set, a Get and a DeleteKey with one of them do
\* what they do with the other, so a Set on one followed by a Get or a
\* DeleteKey on the other acts on the record the Set stored.
C21_SlashesIgnored ==
    \A pair \in SamePairs :
        LET k1 == pair[1]
            k2 == pair[2]
        IN  /\ get(root, RecordKey(k1)) = get(root, RecordKey(k2))
            /\ delete_key(root, RecordKey(k1)) = delete_key(root, RecordKey(k2))
            /\ \A v \in Values :
                    insert(root, RecordKey(k1), RecordPointer(v))
                        = insert(root, RecordKey(k2), RecordPointer(v))
            /\ (last.op = "insert" /\ last.result.ok /\ last.key = k1) =>
                    get(root, RecordKey(k2)) = get(root, RecordKey(k1))

\* A Set with a key that ends in '/' stored a record that Get returns and
\* DeleteKey removes under the key without the '/'.
C21_Witness ==
    /\ last.op = "insert" /\ last.result.ok
    /\ last.key \in TrailingKeys
    /\ SameEntry(last.key, Squeeze(last.key))
    /\ get(root, RecordKey(Squeeze(last.key))) = Ok(RecordPointer(last.value))
    /\ delete_key(root, RecordKey(Squeeze(last.key))).result.ok
    /\ ~Stored(delete_key(root, RecordKey(Squeeze(last.key))).root, last.key)

\* The route of the table /root/status.
StatusRoute == SplitFrom(K_status, 1, <<>>)

\* C22: a record and a table of the same name coexist under one parent. A Set
\* of /root/status and a Set of /root/status/sub1 both reply Ok and each Get
\* returns the value set, the other entry being left as it was;
\* DeleteKey(/root/status) removes the record and leaves the table with its
\* records, DeleteTable(/root/status) removes the table and leaves the record.
C22_RecordAndTable ==
    [][/\ (last'.op = "insert" /\ last'.key \in {K_status, K_sub1}) =>
            /\ last'.result.ok
            /\ get(root', RecordKey(last'.key)) = Ok(RecordPointer(last'.value))
       /\ (last'.op = "insert" /\ last'.key = K_sub1) =>
            get(root', RecordKey(K_status)) = get(root, RecordKey(K_status))
       /\ (last'.op = "insert" /\ last'.key = K_status) =>
            find_table(root', StatusRoute) = find_table(root, StatusRoute)
       /\ (last'.op = "delete_key" /\ last'.key = K_status /\ Stored(root, K_status)) =>
            /\ last'.result.ok
            /\ ~Stored(root', K_status)
            /\ find_table(root', StatusRoute) = find_table(root, StatusRoute)
       /\ (/\ last'.op = "delete_table" /\ last'.key = K_status
           /\ find_table(root, StatusRoute).found) =>
            /\ last'.result.ok
            /\ ~find_table(root', StatusRoute).found
            /\ get(root', RecordKey(K_status)) = get(root, RecordKey(K_status))]_vars

\* /root/status and /root/status/sub1 were both stored; DeleteKey(/root/status)
\* removed the record, and Get(/root/status/sub1) still returns its value.
C22_Witness ==
    /\ last.op = "delete_key" /\ last.key = K_status /\ last.result.ok
    /\ last.removed.type = "RecordPointer"
    /\ ~Stored(root, K_status)
    /\ Stored(root, K_sub1)

\* C28 (as the specification states it): in every state, from the creation of
\* the datastore on and also after DeleteTable of the bare root key, the tree
\* has a root Table named by the database name, so ListKeys of the bare root
\* key succeeds, with the empty list when no record is stored.
C28_RootTable ==
    /\ find_table(root, <<db_name>>).found
    /\ list_keys(root, RecordKey(K_root), "All").ok
    /\ CountRecords(root) = 0 => list_keys(root, RecordKey(K_root), "All") = Ok(<<>>)

\* The route of a well-formed key.
RouteOf(k) == SplitFrom(k, 1, <<>>)

\* A segment on the route to k, before the last, names a record of the tree
\* db where no table of that name is.
ThroughRecord(db, k) ==
    \E n \in 1..(Len(RouteOf(k)) - 1) :
        LET parent == find_table(db, SubSeq(RouteOf(k), 1, n - 1)) IN
        /\ parent.found
        /\ RecordKey(RouteOf(k)[n]) \in DOMAIN parent.table
        /\ TableKey(RouteOf(k)[n]) \notin DOMAIN parent.table

\* The names on the route to k differ from each other.
DistinctNames(k) ==
    \A i, j \in 1..Len(RouteOf(k)) : RouteOf(k)[i] = RouteOf(k)[j] => i = j

C30_ErrorsChangeNothing ==
    [][/\ (ncalls' = ncalls + 1 /\ ~last'.result.ok) => root' = root
       /\ (/\ ncalls' = ncalls + 1
           /\ last.op = "delete_key" /\ last.result.ok
           /\ last'.op = "delete_key" /\ last'.key = last.key) =>
                /\ IsErr(last'.result, "InvalidKey")
                /\ root' = root]_vars

\* Set(/root/a/b), DeleteKey(/root/a/b), DeleteKey(/root/a/b): the second
\* DeleteKey was refused and the emptied table /root/a is still there.
C30_Witness ==
    /\ ncalls = 3
    /\ last.op = "delete_key" /\ IsErr(last.result, "InvalidKey")
    /\ last.key = Path(<<db_name, <<"a">>, <<"b">> >>)
    /\ find_table(root, <<db_name, <<"a">> >>) = SomeTable(EmptyTable)

\* Every entry of the tree db, at any depth, holds the value variant of its
\* key's tag.
RECURSIVE TagsMatch(_)
TagsMatch(db) ==
    \A k \in DOMAIN db :
        CASE k.tag = "Table" -> db[k].type = "TablePointer" /\ TagsMatch(db[k].table)
          [] k.tag = "Record" -> db[k].type = "RecordPointer"
          [] k.tag = "Queue" -> db[k].type = "QueuePointer"

\* C27 (as the specification states it): in every reachable state of the
\* tree each stored entry's value variant matches its key's tag, for every
\* sequence of insert calls with any key tag and any value variant, delete_key
\* and delete_table calls.
C27_TagsMatch == TagsMatch(root)

\* The registry holds link under prefix.
Registered(reg, prefix, link) ==
    prefix \in DOMAIN reg /\ position(reg[prefix], link) # 0

\* C10: registering a (prefix, link) pair the registry does not hold succeeds
\* and registers it; registering a pair it holds already (the same pair a
\* second time) yields Error("Already defined") and leaves the registry as it
\* was.
C10_AddTwice ==
    [][(ncalls' = ncalls + 1 /\ hookLast'.op = "add") =>
        IF Registered(hooks, hookLast'.prefix, hookLast'.link)
            THEN /\ hookLast'.result = ErrResponse(HookError("Already defined"))
                 /\ hooks' = hooks
        ELSE /\ hookLast'.result = Ok(Unit)
             /\ Registered(hooks', hookLast'.prefix, hookLast'.link)]_vars

\* Two calls were made, both add of the same pair: the second was refused.
C10_Witness ==
    /\ ncalls = 2
    /\ hookLast.op = "add"
    /\ ~hookLast.result.ok
    /\ Registered(hooks, hookLast.prefix, hookLast.link)

\* C11: after any sequence of add and remove calls, list(q) returns exactly
\* the stored prefixes that start with q, each with the links it holds now,
\* and nothing else; the result is empty when no stored prefix starts with q.
C11_ListByPrefix ==
    hookLast.op = "list" =>
        LET q == hookLast.prefix
            result == hookLast.result
        IN  /\ DOMAIN result \subseteq DOMAIN hooks
            /\ \A p \in DOMAIN hooks : (p \in DOMAIN result) <=> StartsWith(p, q)
            /\ \A p \in DOMAIN result : result[p] = hooks[p]
            /\ (\A p \in DOMAIN hooks : ~StartsWith(p, q)) => result = <<>>

\* list was asked for a string that is no stored prefix; it returned some of
\* the stored prefixes and left another out.
C11_Witness ==
    /\ hookLast.op = "list"
    /\ hookLast.prefix \notin DOMAIN hooks
    /\ DOMAIN hookLast.result # {}
    /\ DOMAIN hookLast.result # DOMAIN hooks

\* C12: in every reachable state of the registry no prefix holds the same
\* link twice, whatever add and remove calls were made.
C12_NoDuplicateLinks ==
    \A p \in DOMAIN hooks :
        \A i, j \in 1..Len(hooks[p]) : hooks[p][i] = hooks[p][j] => i = j

\* A prefix holds two links and an add of one of them was just refused.
C12_Witness ==
    /\ hookLast.op = "add"
    /\ ~hookLast.result.ok
    /\ Len(hooks[hookLast.prefix]) = 2

\* The stored prefixes the key starts with.
Matching(reg, key) == {p \in DOMAIN reg : StartsWith(key, p)}

\* The number of links held by the prefixes of S.
RECURSIVE CountLinks(_, _)
CountLinks(reg, S) ==
    IF S = {} THEN 0
    ELSE LET p == CHOOSE x \in S : TRUE
         IN  Len(reg[p]) + CountLinks(reg, S \ {p})

\* C13: execute_hooks(key, value) issues one POST per link of every stored
\* prefix the key starts with, prefixes in map order and the links of a
\* prefix in insertion order, each carrying key and value; it returns the
\* number of requests, or nothing when there were none; a request that fails
\* neither stops the following ones nor lowers the count.
C13_ExecuteHooks ==
    hookLast.op = "execute_hooks" =>
        LET sent == hookLast.posts
            matching == Matching(hooks, hookLast.key)
            total == CountLinks(hooks, matching)
        IN  /\ Len(sent) = total
            /\ \A n \in 1..Len(sent) :
                    sent[n].key = hookLast.key /\ sent[n].value = hookLast.value
            /\ \A p \in matching : \A i \in 1..Len(hooks[p]) :
                    LET before == {x \in matching : StrCmp(x, p) < 0}
                    IN  sent[CountLinks(hooks, before) + i].link = hooks[p][i]
            /\ hookLast.result = IF total = 0 THEN NoCount ELSE SomeCount(total)

\* The key started with two prefixes, three requests were issued and the
\* first of them failed.
C13_Witness ==
    /\ hookLast.op = "execute_hooks"
    /\ Cardinality(Matching(hooks, hookLast.key)) = 2
    /\ hookLast.result = SomeCount(3)
    /\ ~hookLast.posts[1].answered
    /\ hookLast.posts[3].answered

\* The step is a call of this method on the Database.
DbCall(op) == ncalls' = ncalls + 1 /\ last'.op = op

\* C34 (as stated): an insert of a well-formed key k changes the entry of k
\* only: get of every other well-formed key returns the same before and after.
C34_SetChangesOneEntry ==
    [][(DbCall("insert") /\ last'.key \in WellFormedKeys) =>
            \A k \in WellFormedKeys \ {last'.key} :
                get(root', RecordKey(k)) = get(root, RecordKey(k))]_vars

\* C39: delete_key removes no table. Every table path of the tree before the
\* call is a table path after it, ListKeys of it still replies Ok, and the
\* listing is the one before the call without the key a successful call
\* deleted (the key as ListKeys writes it, with single slashes). So the table
\* /root/a a Set of /root/a/b created, for which ListKeys replied InvalidKey
\* while it did not exist, is listed as empty once its only record is deleted.
C39_DeleteKeyKeepsTables ==
    [][/\ DbCall("delete_key") =>
            LET gone == IF last'.result.ok THEN {RecordKey(Squeeze(last'.key))} ELSE {} IN
            \A k \in WellFormedKeys :
                /\ find_table(root, RouteOf(k)).found => find_table(root', RouteOf(k)).found
                /\ LET listed == list_keys(root, RecordKey(k), "All")
                       after == list_keys(root', RecordKey(k), "All")
                   IN  listed.ok =>
                            /\ after.ok
                            /\ Listed(after.value) = Listed(listed.value) \ gone
       /\ (/\ DbCall("list_keys")
           /\ last'.key \in WellFormedKeys
           /\ ~find_table(root, RouteOf(last'.key)).found) =>
                last'.result = Err("InvalidKey", "Specified route does not exist")]_vars

\* Set(/root/a/b, v) then DeleteKey(/root/a/b), both Ok: /root/a is a table
\* with nothing in it and ListKeys(/root/a, All) is the empty list.
C39_Witness ==
    /\ ncalls = 2
    /\ last.op = "delete_key"
    /\ last.key = Path(<<db_name, <<"a">>, <<"b">> >>)
    /\ last.result = Ok(Unit)
    /\ find_table(root, <<db_name, <<"a">> >>) = SomeTable(EmptyTable)
    /\ list_keys(root, RecordKey(Path(<<db_name, <<"a">> >>)), "All") = Ok(<<>>)

\* C37: every key a successful list_keys returned, for a path written with or
\* without a trailing or doubled '/' and for either level, is a Record key
\* whose get on the same tree returns Ok with a record value.
C37_ListedKeysAreStored ==
    (last.op = "list_keys" /\ last.result.ok) =>
        \A i \in DOMAIN last.result.value :
            LET key == last.result.value[i] IN
            /\ key.tag = "Record"
            /\ get(root, key).ok
            /\ get(root, key).value \in {RecordPointer(v) : v \in Values}

\* ListKeys("/root/", All) returned the record of /root and the record of the
\* table /root/a, two keys.
C37_Witness ==
    /\ last.op = "list_keys"
    /\ last.key = Path(<<db_name>>) \o <<Slash>>
    /\ last.level = "All"
    /\ last.result.ok
    /\ Len(last.result.value) = 2
    /\ \E i \in 1..2 : Len(RouteOf(last.result.value[i].name)) = 3

\* The step is a call of this method on the HookManager.
HookCall(op) == ncalls' = ncalls + 1 /\ hookLast'.op = op

\* links with its first occurrence of link taken out is shorter.
FirstRemoved(links, link, shorter) ==
    \E i \in DOMAIN links :
        /\ links[i] = link
        /\ \A j \in 1..(i - 1) : links[j] # link
        /\ Len(shorter) = Len(links) - 1
        /\ \A j \in DOMAIN shorter : shorter[j] = IF j < i THEN links[j] ELSE links[j + 1]

\* C31: remove(prefix, link) with link registered under prefix returns Ok,
\* takes the first occurrence of link out of the list of prefix and leaves
\* every other link, in its place, and every other prefix unchanged; with the
\* prefix or the link absent it returns Error("Not found") and the registry is
\* unchanged. get(prefix) returns the list stored under exactly prefix, and
\* None when prefix itself is not registered, whatever longer or shorter
\* prefixes are.
C31_RemoveFirstOccurrence ==
    [][/\ HookCall("remove") =>
            LET prefix == hookLast'.prefix
                link == hookLast'.link
            IN  IF prefix \in DOMAIN hooks /\ (\E i \in DOMAIN hooks[prefix] : hooks[prefix][i] = link)
                    THEN /\ hookLast'.result = Ok(Unit)
                         /\ DOMAIN hooks' = DOMAIN hooks
                         /\ FirstRemoved(hooks[prefix], link, hooks'[prefix])
                         /\ \A p \in DOMAIN hooks \ {prefix} : hooks'[p] = hooks[p]
                ELSE /\ hookLast'.result = ErrResponse(HookError("Not found"))
                     /\ hooks' = hooks
       /\ HookCall("get") =>
            /\ hooks' = hooks
            /\ hookLast'.result =
                    IF hookLast'.prefix \in DOMAIN hooks
                        THEN SomeHooks(hooks[hookLast'.prefix])
                    ELSE NoHooks]_vars

\* The first of two links was removed from a prefix while another prefix holds
\* a link: the second link and the other prefix are as they were.
C31_Witness ==
    /\ hookLast.op = "remove"
    /\ hookLast.result = Ok(Unit)
    /\ hookLast.link = "http://a"
    /\ hookLast.prefix = Path(<<db_name, <<"a">> >>)
    /\ DOMAIN hooks = {Path(<<db_name>>), Path(<<db_name, <<"a">> >>)}
    /\ hooks[Path(<<db_name, <<"a">> >>)] = <<"http://b">>
    /\ hooks[Path(<<db_name>>)] = <<"http://a">>

\* C38: no call removes a prefix from the registry. A prefix whose last link
\* was removed stays with an empty list: get of it returns Some of the empty
\* list, list of any start of it includes it, and execute_hooks of a key that
\* only such prefixes match sends no request and returns None.
C38_PrefixStays ==
    [][/\ DOMAIN hooks \subseteq DOMAIN hooks'
       /\ HookCall("remove") /\ hookLast'.result = Ok(Unit) =>
            /\ hookLast'.prefix \in DOMAIN hooks'
            /\ Len(hooks[hookLast'.prefix]) = 1 => hooks'[hookLast'.prefix] = <<>>
       /\ HookCall("get") /\ hookLast'.prefix \in DOMAIN hooks /\ hooks[hookLast'.prefix] = <<>> =>
            hookLast'.result = SomeHooks(<<>>)
       /\ HookCall("list") =>
            \A p \in DOMAIN hooks :
                StartsWith(p, hookLast'.prefix) =>
                    p \in DOMAIN hookLast'.result /\ hookLast'.result[p] = hooks[p]
       /\ HookCall("execute_hooks") /\ (\A p \in DOMAIN hooks :
                                            StartsWith(hookLast'.key, p) => hooks[p] = <<>>) =>
            /\ hookLast'.result = NoCount
            /\ hookLast'.posts = <<>>]_vars

\* The only link of /root/a was removed, and a get of /root/a found the empty
\* list.
C38_Witness ==
    /\ hookLast.op = "get"
    /\ hookLast.prefix = Path(<<db_name, <<"a">> >>)
    /\ hookLast.result = SomeHooks(<<>>)
    /\ hooks = [p \in {Path(<<db_name, <<"a">> >>)} |-> <<>>]

---------------------------------------------------------------------------
(* Properties of the datastore worker *)

\* The worker is in the middle of serving cur (blocked in a round trip).
InProgress == thread = "running" /\ wpc # "recv"

\* The requests whose handling has ended, in the order the worker took them:
\* the handler ran to its end, or the thread panicked in it.
Ended == IF InProgress THEN SubSeq(received, 1, Len(received) - 1) ELSE received

\* The replies that arrived on the reply channel of request id.
RepliesTo(id) == {j \in DOMAIN replies : replies[j].id = id}

KeyOps == {"Get", "Set", "DeleteKey", "DeleteTable", "ListKeys"}

\* The key strings that do not start with '/', and those whose first
\* non-empty segment is not the database name.
RejectedKeys ==
    {k \in WorkerKeys :
        \/ ~StartsWith(k, <<Slash>>)
        \/ LET segs == SplitFrom(k, 1, <<>>) IN Len(segs) >= 1 /\ segs[1] # db_name}

\* C4: every key-taking request whose key does not start with '/' (the empty
\* string included) or names another root is answered InvalidKey, and the
\* worker thread stays alive to serve the requests after it.
C4_BadKeyRejected ==
    \A i \in DOMAIN Ended :
        (Ended[i].req.op \in KeyOps /\ Ended[i].req.key \in RejectedKeys) =>
            /\ thread = "running"
            /\ \E j \in RepliesTo(Ended[i].id) : IsErr(replies[j].value, "InvalidKey")

\* The errors of the taxonomy (ErrorKind).
ErrorKinds == {"InvalidKey", "InternalError", "InactiveHookManager", "LogError", "InvalidRoot"}

\* C8: every request the worker has finished handling, of any kind, in any
\* configuration and for any key string, has exactly one reply on its reply
\* channel, a success value or an error of the taxonomy.
C8_ExactlyOneReply ==
    \A i \in DOMAIN Ended :
        /\ Cardinality(RepliesTo(Ended[i].id)) = 1
        /\ \A j \in RepliesTo(Ended[i].id) :
                replies[j].value.ok \/ replies[j].value.err \in ErrorKinds

\* What one request makes of the tree db and the registry reg when nothing
\* runs beside it: the Database and HookManager method it stands for, and the
\* reply the caller gets.
Execute(req, db, reg) ==
    LET same(result) == [result |-> result, db |-> db, reg |-> reg]
        tree(r) == [result |-> r.result, db |-> r.root, reg |-> reg]
        registry(r, refused) ==
            [result |-> IF r.result.ok THEN Ok(Unit) ELSE refused, db |-> db, reg |-> r.hooks]
        found == hook_get(reg, req.prefix)
    IN  CASE req.op = "Get" -> same(get(db, RecordKey(req.key)))
          [] req.op = "Set" -> tree(insert(db, RecordKey(req.key), RecordPointer(req.value)))
          [] req.op = "DeleteKey" -> tree(delete_key(db, RecordKey(req.key)))
          [] req.op = "DeleteTable" -> tree(delete_table(db, TableKey(req.key)))
          [] req.op = "ListKeys" -> same(list_keys(db, RecordKey(req.key), req.level))
          [] req.op \in {"HookSet", "HookGet", "HookList", "HookRemove"} /\ ~hook_sender ->
                same(Err("InactiveHookManager", ""))
          [] req.op = "HookSet" /\ hook_sender ->
                registry(add(reg, req.prefix, req.link),
                         Err("InternalError", "Failed to add hook"))
          [] req.op = "HookRemove" /\ hook_sender ->
                registry(remove(reg, req.prefix, req.link),
                         Err("InvalidKey", "Hook is not found"))
          [] req.op = "HookGet" /\ hook_sender ->
                same(IF found.found THEN Ok(<<req.prefix, found.hooks>>)
                     ELSE Err("InvalidKey", "Hook is not found"))
          [] req.op = "HookList" /\ hook_sender -> same(Ok(hook_list(reg, req.prefix)))

LogOps == {"ResumeLog", "SuspendLog"}

\* The sequential execution of msgs[i..] from tree db and registry reg: the
\* replies in order and the tree at the end. A request to the logger is left
\* to the logger; a panic ends the execution.
RECURSIVE Sequential(_, _, _, _)
Sequential(msgs, i, db, reg) ==
    IF i > Len(msgs) THEN [replies |-> <<>>, db |-> db]
    ELSE IF msgs[i].req.op \in LogOps THEN Sequential(msgs, i + 1, db, reg)
    ELSE LET out == Execute(msgs[i].req, db, reg) IN
        IF out.result = Panic THEN [replies |-> <<>>, db |-> db]
        ELSE LET rest == Sequential(msgs, i + 1, out.db, out.reg) IN
            [replies |-> <<[id |-> msgs[i].id, value |-> out.result]>> \o rest.replies,
             db |-> rest.db]

\* The replies to the requests that are not for the logger, in arrival order.
DataReplies == SelectSeq(replies, LAMBDA r : received[r.id].req.op \notin LogOps)

\* C9: the worker takes the requests in the order they were put on its
\* channel (the i-th one taken is the i-th one sent), one at a time, and the
\* replies and the tree are those of executing the taken requests one after
\* another in that order. In particular a Set sent before another on the
\* channel has taken effect before the later one, so no Get sees the later
\* value without the earlier Set applied.
C9_ChannelOrder ==
    /\ \A i \in DOMAIN received : received[i].id = i
    /\ \A j \in DOMAIN replies : replies[j].id \in DOMAIN Ended
    /\ LET expected == Sequential(Ended, 1, EmptyTable, <<>>) IN
        /\ DataReplies = expected.replies
        /\ root = expected.db

\* Set(A, v1), Set(B, v2) and Get(B) were sent in this order and all served:
\* the Get saw v2 and A holds v1.
C9_Witness ==
    /\ Len(replies) = 3
    /\ received[1].req.op = "Set" /\ received[2].req.op = "Set" /\ received[3].req.op = "Get"
    /\ received[1].req.key # received[2].req.key
    /\ received[3].req.key = received[2].req.key
    /\ replies[3].value = Ok(RecordPointer(received[2].req.value))
    /\ get(root, RecordKey(received[1].req.key)) = Ok(RecordPointer(received[1].req.value))


HookOps == {"HookSet", "HookGet", "HookList", "HookRemove"}

\* C14: when the worker was started without a hook channel, every HookSet,
\* HookGet, HookList and HookRemove it has handled got the one reply
\* InactiveHookManager, and no message was sent to a hook manager.
C14_InactiveHookManager ==
    ~hook_sender =>
        /\ hookChan = <<>>
        /\ wpc # "wait_hook"
        /\ \A i \in DOMAIN Ended :
                Ended[i].req.op \in HookOps =>
                    /\ Cardinality(RepliesTo(Ended[i].id)) = 1
                    /\ \A j \in RepliesTo(Ended[i].id) :
                            replies[j].value = Err("InactiveHookManager", "")

\* Without a hook channel, three hook requests of three kinds were handled
\* and answered.
C14_Witness ==
    /\ ~hook_sender
    /\ Len(replies) = 3
    /\ \A i \in 1..3 : received[i].req.op \in HookOps
    /\ Cardinality({received[i].req.op : i \in 1..3}) = 3

\* The request handled i-th got the reply Ok(()).
RepliedOk(i) == \E j \in RepliesTo(Ended[i].id) : replies[j].value = Ok(Unit)

\* C15: with a hook manager attached and a hook (p, l) registered, a Set that
\* succeeded on a key that starts with p has made the worker send
\* Send(key, value) to the hook manager, which issues a POST to l: once the
\* Set is handled, the Send is on the hook manager's channel or the POST is
\* out.
C15_SetFiresHooks ==
    \A i, j \in DOMAIN Ended :
        (/\ i < j
         /\ Ended[i].req.op = "HookSet" /\ RepliedOk(i)
         /\ Ended[j].req.op = "Set" /\ RepliedOk(j)
         /\ StartsWith(Ended[j].req.key, Ended[i].req.prefix)) =>
            \/ \E m \in DOMAIN hookChan :
                    hookChan[m] = [type |-> "Send", key |-> Ended[j].req.key,
                                   value |-> Ended[j].req.value]
            \/ \E n \in DOMAIN posts :
                    /\ posts[n].link = Ended[i].req.link
                    /\ posts[n].key = Ended[j].req.key
                    /\ posts[n].value = Ended[j].req.value

\* C20: a worker whose request channel has lost every Sender leaves its
\* receive loop and ends without a panic, and the hook manager and the logger
\* end only after the datastore worker, which holds their Senders, has ended.
C20_CleanExit ==
    /\ hookThread # "panicked"
    /\ (thread = "running" /\ hook_sender) => hookThread = "running"
    /\ (thread = "running" /\ logger_sender) => logThread = "running"
    /\ (thread = "exited") => (~senders /\ chan = <<>>)

---------------------------------------------------------------------------
(* Properties of the LoggerManager *)

\* The three states of the logger, read off the two fields that decide what
\* a call does: stop drops the handle and leaves the state field as it is, so
\* a logger without a handle that is not Suspended is closed.
LogClosed(state, handle) == state # "Suspended" /\ ~handle
LogOpen(state, handle) == state = "Open" /\ handle
LogSuspended(state, handle) == state = "Suspended"

\* A call of this kind was just made on the LoggerManager.
LogCall(op) == ncalls' = ncalls + 1 /\ logLast'.op = op

C17_ResumeFlushes ==
    [][(LogCall("resume") /\ logLast'.result.ok) =>
        /\ Len(logFile') = Len(logFile) + Len(suspendedWrites)
        /\ SubSeq(logFile', 1, Len(logFile)) = logFile
        /\ \A i \in 1..Len(suspendedWrites) :
                logFile'[Len(logFile) + i].item = suspendedWrites[i]
        /\ logBuffer' = <<>>
        /\ logState' = "Open" /\ logHandle']_vars

\* Two different items were written while Suspended and the resume put them
\* in the file after a line that was there before.
C17_Witness ==
    /\ logLast.op = "resume"
    /\ logLast.result.ok
    /\ Len(logFile) = 3
    /\ logFile[2].item # logFile[3].item
    /\ logFile[2].ts < logFile[3].ts

\* C19: resume called when the logger is Closed or Open returns an error and
\* changes neither the state, the file handle, the buffer nor the file.
C19_ResumeOnlyFromSuspended ==
    [][LogCall("resume") =>
        /\ logLast'.result.ok => logState = "Suspended"
        /\ logState # "Suspended" =>
                /\ ~logLast'.result.ok
                /\ logState' = logState
                /\ logHandle' = logHandle
                /\ logBuffer' = logBuffer
                /\ logFile' = logFile]_vars

\* resume was refused on an Open logger that holds a pair in its buffer (left
\* there by a start made while Suspended).
C19_Witness ==
    /\ logLast.op = "resume"
    /\ ~logLast.result.ok
    /\ LogOpen(logLast.state, logLast.handle)
    /\ logState = "Open" /\ logHandle
    /\ logBuffer # <<>>

\* C18: stop drops the file handle and moves the logger to Closed from any
\* state, Closed, Open or Suspended, so that a write made after it fails and
\* is not buffered.
C18_StopCloses ==
    [][/\ LogCall("stop") => LogClosed(logState', logHandle')
       /\ (ncalls' = ncalls + 1 /\ logLast.op = "stop" /\ logLast'.op = "write") =>
                /\ ~logLast'.result.ok
                /\ logBuffer' = logBuffer
                /\ logFile' = logFile]_vars


\* C35 (as stated): the lines of the log file are in the order their write
\* calls were made. Every line carries the clock of its write call, so the
\* clocks of the file never descend.
C35_FileInCallOrder ==
    \A i, j \in DOMAIN logFile : i < j => logFile[i].ts <= logFile[j].ts

\* The step is a resume() called on a Suspended logger.
ResumeCalled ==
    /\ ncalls' = ncalls + 1
    /\ logLast'.op = "resume"
    /\ logState = "Suspended"

RECURSIVE ItemsOf(_)
ItemsOf(msgs) ==
    IF msgs = <<>> THEN <<>>
    ELSE (IF Head(msgs).type \in {"Write", "WriteAsync"} THEN Head(msgs).items ELSE <<>>)
            \o ItemsOf(Tail(msgs))

\* The items of the lines of the file, or of the pairs of the buffer.
Items(lines) == [i \in DOMAIN lines |-> lines[i].item]

\* The messages sent on a channel that now holds ch: those the logger took.
HandledOf(ch) == SubSeq(logSent, 1, Len(logSent) - Len(ch))

\* The step in which the logger takes a Write and replies Ok to it.
WriteReplied ==
    /\ logChan # <<>>
    /\ Head(logChan).type = "Write"
    /\ logChan' = Tail(logChan)
    /\ Len(logResp') = Len(logResp) + 1
    /\ logResp'[Len(logResp')].ok

HookAnswer ==
    /\ hookResp # <<>>
    /\ hookResp' = Tail(hookResp)
    /\ Len(replies') = Len(replies) + 1

\* C32: with a hook manager attached the datastore answers a hook request
\* with the translation of the hook manager's response: Ok becomes Ok(()),
\* Hook(p, links) becomes Ok((p, links)), HookList(m) becomes Ok(m); any other
\* response becomes InternalError("Failed to add hook") for HookSet and
\* InvalidKey("Hook is not found") for HookGet, HookList and HookRemove. What
\* the caller is told is what the hook manager holds: Ok to HookSet means the
\* link is registered under the prefix, HookGet replies the list stored under
\* the prefix (InvalidKey when the prefix is not registered), HookList the
\* entries of the registry that start with the prefix, and Ok to HookRemove
\* means the link is gone.
C32_HookTranslation ==
    [][HookAnswer =>
        LET response == Head(hookResp)
            req == cur.req
            reply == replies'[Len(replies')]
            expected ==
                CASE req.op = "HookSet" -> response.type = "Ok"
                  [] req.op = "HookRemove" -> response.type = "Ok"
                  [] req.op = "HookGet" -> response.type = "Hook"
                  [] req.op = "HookList" -> response.type = "HookList"
            registered == req.prefix \in DOMAIN hooks
            held == IF registered THEN {hooks[req.prefix][i] : i \in DOMAIN hooks[req.prefix]}
                    ELSE {}
        IN  /\ hook_sender
            /\ req.op \in HookOps
            /\ reply.id = cur.id
            /\ reply.value.ok = expected
            /\ ~expected =>
                    reply.value = IF req.op = "HookSet"
                                      THEN Err("InternalError", "Failed to add hook")
                                  ELSE Err("InvalidKey", "Hook is not found")
            /\ expected /\ req.op = "HookSet" =>
                    reply.value.value = Unit /\ req.link \in held
            /\ expected /\ req.op = "HookRemove" =>
                    reply.value.value = Unit /\ req.link \notin held
            /\ expected /\ req.op = "HookGet" =>
                    /\ reply.value.value = <<response.prefix, response.hooks>>
                    /\ registered
                    /\ reply.value.value = <<req.prefix, hooks[req.prefix]>>
            /\ ~expected /\ req.op = "HookGet" => ~registered
            /\ expected /\ req.op = "HookList" =>
                    /\ reply.value.value = response.list
                    /\ reply.value.value = hook_list(hooks, req.prefix)
    ]_vars

\* HookSet answered Ok(()), the same HookSet answered InternalError, then
\* HookGet answered with the prefix and its one link.
C32_Witness ==
    /\ hook_sender
    /\ Len(replies) = 3
    /\ \A i \in 1..3 : replies[i].id = i
    /\ received[1].req.op = "HookSet" /\ replies[1].value = Ok(Unit)
    /\ received[2].req.op = "HookSet"
    /\ replies[2].value = Err("InternalError", "Failed to add hook")
    /\ received[3].req.op = "HookGet"
    /\ replies[3].value = Ok(<<WorkerPrefix, <<WorkerLink>> >>)

\* C36: the three workers cannot deadlock. With the hook manager and the
\* logger running, every request put on the datastore worker's channel is
\* answered in the end.
C36_EveryRequestAnswered ==
    \A id \in 1..MaxReq : (nsent >= id) ~> (RepliesTo(id) # {})

---------------------------------------------------------------------------
(* Properties of the datastore worker among peers that fail *)

\* The log item the branch of a data request writes.
ItemOf(req) ==
    CASE req.op = "Get" -> LogItem("GetKey", <<req.key>>)
      [] req.op = "Set" -> LogItem("SetKey", <<req.key, req.value>>)
      [] req.op = "DeleteKey" -> LogItem("RemKey", <<req.key>>)
      [] req.op = "DeleteTable" -> LogItem("RemPath", <<req.key>>)
      [] req.op = "ListKeys" -> LogItem("ListKeys", <<req.key>>)

\* The log items the worker sent, in the order it sent them, and those of
\* them that data requests produced.
LogEvents == SelectSeq(emitted, LAMBDA e : e.kind = "log")
DataLogEvents == SelectSeq(LogEvents, LAMBDA e : received[e.id].req.op \in KeyOps)

\* The data requests handled to their end, in the order the worker took them.
DataEnded == SelectSeq(Ended, LAMBDA m : m.req.op \in KeyOps)

\* The items of the WriteAsync messages waiting in the logger's channel.
Waiting ==
    LET w == SelectSeq(logChan, LAMBDA m : m.type = "WriteAsync") IN
    [i \in 1..Len(w) |-> w[i].items[1]]

\* C25: with a logger attached, the worker sends the reply of every data
\* request before it sends the request's log item (the send right before the
\* log item is the reply to the same request), the log items of the data
\* requests are sent in the order the worker handled the requests, one for
\* each, and the logger's channel holds the items in the order they were sent.
C25_ReplyBeforeLog ==
    logger_sender =>
        /\ \A i \in DOMAIN emitted :
                emitted[i].kind = "log" =>
                    /\ i > 1
                    /\ emitted[i - 1] = [kind |-> "reply", id |-> emitted[i].id]
        /\ Len(DataLogEvents) = Len(DataEnded)
        /\ \A i \in DOMAIN DataEnded :
                /\ DataLogEvents[i].id = DataEnded[i].id
                /\ DataLogEvents[i].item = ItemOf(DataEnded[i].req)
        /\ Len(Waiting) <= Len(LogEvents)
        /\ \A i \in DOMAIN Waiting :
                Waiting[i] = LogEvents[Len(LogEvents) - Len(Waiting) + i].item

\* Two data requests were handled with a logger attached, the second a Get
\* after a Set, and both log items wait in the logger's channel.
C25_Witness ==
    /\ logger_sender
    /\ logThread = "running"
    /\ Len(DataEnded) = 2
    /\ DataEnded[1].req.op = "Set"
    /\ DataEnded[2].req.op = "Get"
    /\ Len(Waiting) = 2
    /\ Len(replies) = 2


\* The replies that arrived for data requests, and the replies the data
\* requests handled so far give when executed one after another, those to
\* callers that dropped their Receiver left out.
KeyReplies == SelectSeq(replies, LAMBDA r : received[r.id].req.op \in KeyOps)
HeardReplies ==
    SelectSeq(Sequential(Ended, 1, EmptyTable, <<>>).replies,
              LAMBDA r : received[r.id].req.op \in KeyOps /\ r.id \notin deaf)

\* C26: whatever replies the callers have stopped listening for, the worker
\* thread keeps running, the tree is the one that executing every handled
\* request in order gives (the Set, DeleteKey or DeleteTable of a caller that
\* dropped its Receiver included), no reply arrives for such a request, and
\* every other data request, those handled after it included, gets its reply.
C26_DroppedReplyIgnored ==
    /\ thread = "running"
    /\ root = Sequential(Ended, 1, EmptyTable, <<>>).db
    /\ \A i \in DOMAIN Ended : Ended[i].id \in deaf => RepliesTo(Ended[i].id) = {}
    /\ KeyReplies = HeardReplies

\* A Set whose caller dropped the Receiver was handled and a later Get got the
\* value it stored.
C26_Witness ==
    /\ Len(Ended) = 2
    /\ Ended[1].req.op = "Set"
    /\ Ended[1].id \in deaf
    /\ Ended[2].req.op = "Get"
    /\ Ended[2].id \notin deaf
    /\ get(root, RecordKey(WorkerPrefix)) = Ok(RecordPointer("v1"))
    /\ replies = <<[id |-> Ended[2].id, value |-> Ok(RecordPointer("v1"))]>>


\* The log items that were sent and reached neither the logger's channel nor
\* the logger: with the logger's Receiver dropped and nothing written or
\* buffered, all of them.
LogUndelivered == logger_sender /\ logThread # "running"

\* C24: once the logger no longer receives, the worker thread keeps running
\* and every data request it handles, before or after, gets the one reply its
\* Database method returned: a Get, Set, DeleteKey, DeleteTable or ListKeys
\* that succeeded on the tree replies Ok although its log item was not
\* delivered.
C24_LogFailureKeepsReply ==
    LogUndelivered =>
        /\ thread = "running"
        /\ logChan = <<>>
        /\ \A i \in DOMAIN DataEnded :
                DataEnded[i].id \notin deaf =>
                    /\ Cardinality(RepliesTo(DataEnded[i].id)) = 1
                    /\ \A j \in RepliesTo(DataEnded[i].id) :
                            \E k \in DOMAIN HeardReplies :
                                /\ HeardReplies[k].id = replies[j].id
                                /\ HeardReplies[k].value = replies[j].value

\* The logger stopped receiving before any request; a Set and then a Get were
\* handled, both replied Ok, both log items were sent and neither was written.
C24_Witness ==
    /\ LogUndelivered
    /\ logFile = <<>>
    /\ logBuffer = <<>>
    /\ Len(DataLogEvents) = 2
    /\ Len(DataEnded) = 2
    /\ DataEnded[1].req.op = "Set"
    /\ DataEnded[2].req.op = "Get"
    /\ replies = <<[id |-> DataEnded[1].id, value |-> Ok(Unit)],
                  [id |-> DataEnded[2].id, value |-> Ok(RecordPointer("v1"))]>>


\* The steps in which the worker fails to reach a peer while serving a
\* request: its send to the hook manager fails, or its wait for the hook
\* manager's or the logger's response fails (a failed send to the logger is
\* ignored, and the wait that follows it fails).
HookSendFails ==
    /\ thread = "running"
    /\ wpc = "recv"
    /\ chan # <<>>
    /\ Recv(chan).data.req.op \in HookOps
    /\ hook_sender
    /\ hookThread # "running"
    /\ received' = Append(received, Recv(chan).data)

HookReceiveFails ==
    /\ thread = "running"
    /\ wpc = "wait_hook"
    /\ hookResp = <<>>
    /\ hookThread # "running"
    /\ wpc' = "recv"

LogReceiveFails ==
    /\ thread = "running"
    /\ wpc = "wait_log"
    /\ logResp = <<>>
    /\ logThread # "running"
    /\ wpc' = "recv"

\* The step sends one reply, to request id, an error of this kind (when the
\* caller of id still listens).
RepliedWith(id, kind) ==
    id \notin deaf =>
        /\ Len(replies') = Len(replies) + 1
        /\ replies'[Len(replies')].id = id
        /\ IsErr(replies'[Len(replies')].value, kind)

\* C23 as stated: whenever the worker cannot send to or receive from the hook
\* manager or the logger while serving a request, the reply is an
\* InternalError.
C23_TransportFailure_Original ==
    [][/\ HookSendFails => RepliedWith(Recv(chan).data.id, "InternalError")
       /\ HookReceiveFails => RepliedWith(cur.id, "InternalError")
       /\ LogReceiveFails => RepliedWith(cur.id, "InternalError")]_vars

\* C23: whenever the worker cannot send to or receive from the hook manager
\* while serving a hook request, the reply is an InternalError (with the text
\* "Failed to receive from hook manager" for a failed receive); whenever it
\* cannot reach the logger while serving ResumeLog or SuspendLog, the reply is
\* a LogError with the text of the receive error.
C23_TransportFailure ==
    [][/\ HookSendFails => RepliedWith(Recv(chan).data.id, "InternalError")
       /\ HookReceiveFails =>
            /\ RepliedWith(cur.id, "InternalError")
            /\ cur.id \notin deaf =>
                    replies'[Len(replies')].value.msg = "Failed to receive from hook manager"
       /\ LogReceiveFails =>
            /\ RepliedWith(cur.id, "LogError")
            /\ cur.id \notin deaf =>
                    replies'[Len(replies')].value.msg = "receiving on a closed channel"]_vars

\* The three failures in one run: a HookSet whose response never came, a
\* HookSet that could not be sent, a SuspendLog the logger never answered.
C23_Witness ==
    /\ Len(Ended) = 3
    /\ Ended[1].req.op = "HookSet"
    /\ Ended[2].req.op = "HookSet"
    /\ Ended[3].req.op = "SuspendLog"
    /\ replies = <<[id |-> 1, value |-> Err("InternalError", "Failed to receive from hook manager")],
                  [id |-> 2, value |-> Err("InternalError", "")],
                  [id |-> 3, value |-> Err("LogError", "receiving on a closed channel")]>>

====
